---- MODULE Spec2Model ----
(***************************************************************************)
(* A model of ccl_mozilla_reader: the cache-key parser, the cache          *)
(* directory's header filter, the profile-folder facade, the IndexedDB key *)
(* decoder and the structured-clone reader.                                *)
(*                                                                         *)
(* Each component is an object of the program held in one variable (a      *)
(* record of the object's fields plus the position of the code working on  *)
(* it).  Each component has its own specification; the variables of the    *)
(* other components stay idle under it.                                    *)
(*                                                                         *)
(* Text is modelled as a sequence of one-character strings, bytes as a     *)
(* sequence of integers 0..255, and a stream position as the 0-based       *)
(* offset that tell() returns.                                             *)
(***************************************************************************)
EXTENDS Integers, Sequences, FiniteSets, TLC

VARIABLES
    ck,      \* a CacheKey under construction (ccl_moz_cache.CacheKey)
    cache,   \* a MozillaCache and one iter_cache call on it
    pf,      \* a MozillaProfileFolder and the components it has loaded
    idb,     \* the IndexedDB key reader (MozillaIdbKey.from_bytes)
    sc       \* a StructuredCloneReader and its stream

vars == <<ck, cache, pf, idb, sc>>

Idle == [pc |-> "idle"]

\* Python's None, for a field that holds text otherwise.
None == <<"None">>

\* All sequences over S of length 0..n.
SeqsUpTo(S, n) == UNION {[1..m -> S] : m \in 0..n}

Last(s) == s[Len(s)]

(***************************************************************************)
(* CacheKey  (src/ccl_mozilla_reader/ccl_moz_cache.py)                     *)
(***************************************************************************)

\* Longest raw key drawn from KeyAlphabet.
MaxKeyLen == 4

KeyAlphabet == {":", "O", "p", "a", "~", ",", "b", "i", "u"}

S4RawKey ==
    <<"O", ",", "^", "u", "s", "e", "r", "C", "o", "n", "t", "e", "x", "t", "I", "d", "=",
    "1", ",", ":", "h", "t", "t", "p", "s", ":", "/", "/", "e", "x", "a", "m", "p", "l", "e",
    ".", "c", "o", "m", "/">>

S4RawKeyNoComma ==
    <<"O", "^", "u", "s", "e", "r", "C", "o", "n", "t", "e", "x", "t", "I", "d", "=", "1",
    ",", ":", "h", "t", "t", "p", "s", ":", "/", "/", "e", "x", "a", "m", "p", "l", "e", ".",
    "c", "o", "m", "/">>

S4Url ==
    <<"h", "t", "t", "p", "s", ":", "/", "/", "e", "x", "a", "m", "p", "l", "e", ".", "c",
    "o", "m", "/">>

S4OriginSuffix ==
    <<"^", "u", "s", "e", "r", "C", "o", "n", "t", "e", "x", "t", "I", "d", "=", "1">>

\* A realistic anonymous, partitioned key: "a,Ou,,u,:u" is too long for the
\* alphabet bound, so it is given by name.
LongRawKey == <<"a", ",", "O", "u", ",", ",", "u", ",", "~", "u", ",", ":", "u", ",">>

RawKeys == SeqsUpTo(KeyAlphabet, MaxKeyLen) \cup {S4RawKey, S4RawKeyNoComma, LongRawKey}

\* CacheKey._read_value: s is the key, pos the stream position on entry.
\* Returns whether a value was read (no ValueError), the value and the
\* stream position on exit.
RECURSIVE ReadValueFrom(_, _, _, _)
ReadValueFrom(s, pos, out, back) ==
    IF pos >= Len(s)
    THEN [ok |-> FALSE, value |-> out, pos |-> pos]            \* c is empty
    ELSE IF s[pos + 1] = ","
         THEN IF pos + 1 >= Len(s)
              THEN [ok |-> FALSE, value |-> out, pos |-> pos + 1]   \* comma_check is empty
              ELSE IF s[pos + 2] = ","
                   THEN ReadValueFrom(s, pos + 2, Append(out, ","), back)   \* escaped comma
                   ELSE [ok |-> TRUE, value |-> out, pos |-> pos + 2 - back]
         ELSE ReadValueFrom(s, pos + 1, Append(out, s[pos + 1]), back)

\* The same with s.seek(-1, SEEK_CUR): only the check is given back.
Mutant_read_value(s, pos) == ReadValueFrom(s, pos, <<>>, 1)

CacheKey_read_value(s, pos) == ReadValueFrom(s, pos, <<>>, 2)

\* The tail of _read_tags' loop body: read one byte, it must be a comma.
ReadComma(k, tagAt) ==
    LET seen == Append(k.tags, [at |-> tagAt, end |-> k.pos + 1])
    IN  IF k.pos < Len(k.raw_key) /\ k.raw_key[k.pos + 1] = ","
        THEN [k EXCEPT !.pos = k.pos + 1, !.tags = seen]
        ELSE [k EXCEPT !.pos = IF k.pos < Len(k.raw_key) THEN k.pos + 1 ELSE k.pos,
                       !.tags = Append(k.tags, [at |-> tagAt, end |-> k.pos]),
                       !.status = "error", !.pc = "done"]

Failed(k, tagAt, pos) ==
    [k EXCEPT !.pos = pos, !.status = "error", !.pc = "done",
              !.tags = Append(k.tags, [at |-> tagAt, end |-> pos])]

\* One iteration of the loop of CacheKey._read_tags, with the legacy tags in
\* `legacy` accepted as flags without effect.
ReadTagsWith(k, legacy) ==
    IF k.pos >= Len(k.raw_key)
    THEN [k EXCEPT !.status = "ok", !.pc = "done"]              \* not tag: break
    ELSE LET tag   == k.raw_key[k.pos + 1]
             tagAt == k.pos + 1
             k1    == [k EXCEPT !.pos = k.pos + 1]
         IN  CASE tag = ":" ->
                    [k1 EXCEPT !.url = SubSeq(k.raw_key, k.pos + 2, Len(k.raw_key)),
                               !.pos = Len(k.raw_key),
                               !.tags = Append(k.tags, [at |-> tagAt, end |-> Len(k.raw_key)]),
                               !.status = "ok", !.pc = "done"]
               [] tag = "O" ->
                    LET r == CacheKey_read_value(k.raw_key, k1.pos)
                    IN  IF r.ok
                        THEN ReadComma([k1 EXCEPT !.origin_suffix = r.value, !.pos = r.pos], tagAt)
                        ELSE Failed(k1, tagAt, r.pos)
               [] tag = "p" ->
                    ReadComma([k1 EXCEPT !.sync_attributes_with_private_browsing = TRUE], tagAt)
               [] tag = "a" ->
                    ReadComma([k1 EXCEPT !.is_anon = TRUE], tagAt)
               [] tag = "~" ->
                    LET r == CacheKey_read_value(k.raw_key, k1.pos)
                    IN  IF r.ok
                        THEN ReadComma([k1 EXCEPT !.id_enhance = r.value, !.pos = r.pos], tagAt)
                        ELSE Failed(k1, tagAt, r.pos)
               [] tag \in legacy -> ReadComma(k1, tagAt)
               [] OTHER -> Failed(k1, tagAt, k1.pos)

\* The same loop body with the old-format tags b and i skipped, not refused.
Mutant_read_tags(k) == ReadTagsWith(k, {"b", "i"})

CacheKey_read_tags(k) == ReadTagsWith(k, {})

\* CacheKey.__init__ up to the call of _read_tags: the fields' defaults and
\* the BytesIO over the key at position 0.  `tags` records, for each tag
\* position the loop has visited, the 1-based index of the tag byte and the
\* stream position at the end of that iteration.
CacheKey_init(raw) ==
    [raw_key |-> raw, is_anon |-> FALSE, url |-> None,
     sync_attributes_with_private_browsing |-> FALSE,
     id_enhance |-> None, origin_suffix |-> None,
     pos |-> 0, tags |-> <<>>, status |-> "parsing", pc |-> "read_tags"]

InitCacheKey ==
    /\ ck \in {CacheKey_init(raw) : raw \in RawKeys}
    /\ cache = Idle /\ pf = Idle /\ idb = Idle /\ sc = Idle

\* One turn of the while-loop of _read_tags.
ReadTagsStep ==
    /\ ck.pc = "read_tags"
    /\ ck' = CacheKey_read_tags(ck)
    /\ UNCHANGED <<cache, pf, idb, sc>>

NextCacheKey == ReadTagsStep

SpecCacheKey == InitCacheKey /\ [][NextCacheKey]_vars

(***************************************************************************)
(* Claims about CacheKey                                                   *)
(***************************************************************************)

KeyDone == ck.pc = "done"
KeyOk   == KeyDone /\ ck.status = "ok"

\* The 1-based index of the first comma at or after index i that does not
\* open a ",," pair, scanning left to right; 0 when there is none.
RECURSIVE ValueEnd(_, _)
ValueEnd(s, i) ==
    IF i > Len(s) THEN 0
    ELSE IF s[i] # "," THEN ValueEnd(s, i + 1)
    ELSE IF i + 1 <= Len(s) /\ s[i + 1] = "," THEN ValueEnd(s, i + 2)
    ELSE i

\* A run with each ",," pair replaced by one ",".
RECURSIVE Unescape(_)
Unescape(run) ==
    IF run = <<>> THEN <<>>
    ELSE IF Len(run) >= 2 /\ run[1] = "," /\ run[2] = ","
         THEN <<",">> \o Unescape(SubSeq(run, 3, Len(run)))
         ELSE <<run[1]>> \o Unescape(Tail(run))

ValueTags == {"O", "~"}
FlagTags  == {"p", "a"}
KnownTags == {":"} \cup ValueTags \cup FlagTags

LastTag     == Last(ck.tags)
LastTagByte == ck.raw_key[LastTag.at]
ValueField  == IF LastTagByte = "O" THEN ck.origin_suffix ELSE ck.id_enhance

C2_ValueEndsAtUnescapedComma ==
    (ck.tags # <<>> /\ LastTagByte \in ValueTags
        /\ ValueEnd(ck.raw_key, LastTag.at + 1) # 0) =>
        LET e == ValueEnd(ck.raw_key, LastTag.at + 1)
        IN  /\ ck.status # "error"
            /\ ValueField = Unescape(SubSeq(ck.raw_key, LastTag.at + 1, e - 1))
            /\ LastTag.end = e

\* C3: parsing fails whenever the byte at a tag position is not one of
\* : O p a ~ (the legacy tags b and i included), and whenever a tag other
\* than ":" is not followed, after its value if it has one, by a comma.
SeparatorFollows(s, t) ==
    IF s[t.at] \in FlagTags
    THEN t.at + 1 <= Len(s) /\ s[t.at + 1] = ","
    ELSE ValueEnd(s, t.at + 1) # 0

C3_BadTagOrSeparatorFails ==
    \A i \in DOMAIN ck.tags :
        LET t == ck.tags[i]
            b == ck.raw_key[t.at]
        IN  (b \notin KnownTags \/ (b # ":" /\ ~SeparatorFollows(ck.raw_key, t)))
                => ck.status = "error"

C3_Witness ==
    /\ KeyDone /\ ck.status = "error" /\ Len(ck.tags) = 2
    /\ LastTagByte \in {"b", "i"}
    /\ ck.raw_key[ck.tags[1].at] = "a"

(***************************************************************************)
(* MozillaCache.iter_cache and its header predicates                       *)
(* (src/ccl_mozilla_reader/ccl_moz_cache.py, src/common.py)                *)
(***************************************************************************)

\* Most entry files in the cache folder, and most header predicates (keyword
\* arguments) of one iter_cache call.
MaxFiles == 2
MaxPredicates == 2

\* str.lower() and str.replace("_", "-") on the letters the model uses.
LowerChar(c) ==
    CASE c = "X" -> "x" [] c = "A" -> "a" [] c = "B" -> "b" [] c = "C" -> "c" [] c = "E" -> "e"
      [] OTHER -> c
Lower(s) == [i \in DOMAIN s |-> LowerChar(s[i])]
ReplaceUnderscore(s) == [i \in DOMAIN s |-> IF s[i] = "_" THEN "-" ELSE s[i]]

\* Header names as the response head spells them, and header values.
StoredHeaderNames == {<<"x", "-", "a">>, <<"x", "-", "b">>, <<"X", "-", "B">>}
HeaderValues == {"v1", "v2"}

\* CacheFile._header: a mapping from the stored names to values.
HeaderMaps == UNION {[names -> HeaderValues] : names \in SUBSET StoredHeaderNames}

\* Keyword names and the values a caller may pass for them: a Boolean, a
\* string, or a collection of strings.
KeywordNames == {<<"x", "_", "a">>, <<"x", "_", "b">>, <<"X", "_", "B">>}
TestValues ==
    {[kind |-> "bool", b |-> TRUE], [kind |-> "bool", b |-> FALSE],
     [kind |-> "str", s |-> "v1"], [kind |-> "collection", c |-> {"v1", "v2"}]}

\* **kwargs: an ordered mapping, so no keyword occurs twice.
KwargsSets ==
    {kw \in SeqsUpTo([name : KeywordNames, test : TestValues], MaxPredicates) :
        \A i, j \in DOMAIN kw : i # j => kw[i].name # kw[j].name}

\* common.is_keysearch_hit for a string and for a collection of strings.
is_keysearch_hit(search, value) ==
    IF search.kind = "str" THEN value = search.s ELSE value \in search.c

\* CacheFile.has_header_attribute / get_header_attribute.
has_header_attribute(header, attribute) == Lower(attribute) \in DOMAIN header
get_header_attribute(header, attribute) == header[Lower(attribute)]

\* MozillaCache._check_attributes: the for-loop over kwargs from item i on,
\* each `return` ending it.
RECURSIVE CheckAttributesFrom(_, _, _)
CheckAttributesFrom(header, kwargs, i) ==
    IF i > Len(kwargs) THEN TRUE
    ELSE LET att_name   == Lower(ReplaceUnderscore(kwargs[i].name))
             test_value == kwargs[i].test
             has_att    == has_header_attribute(header, att_name)
         IN  IF test_value.kind = "bool"
             THEN ~((test_value.b /\ ~has_att) \/ (~test_value.b /\ has_att))  \* not (a ^ b)
             ELSE IF ~has_att THEN FALSE
             ELSE IF ~is_keysearch_hit(test_value, get_header_attribute(header, att_name))
                  THEN FALSE
                  ELSE CheckAttributesFrom(header, kwargs, i + 1)

check_attributes(header, kwargs) == CheckAttributesFrom(header, kwargs, 1)

\* A MozillaCache over a folder of entry files (each given by its header
\* map) and one call iter_cache(url=None, **kwargs) about to visit file 1.
InitIterCache ==
    /\ cache \in {[files |-> fs, kwargs |-> kw, next |-> 1, yielded |-> <<>>, pc |-> "iter_cache_all"] :
                    fs \in SeqsUpTo(HeaderMaps, MaxFiles) \ {<<>>}, kw \in KwargsSets}
    /\ ck = Idle /\ pf = Idle /\ idb = Idle /\ sc = Idle

\* One turn of the loop of _iter_cache_all: the next file is read and
\* yielded unless a predicate refuses it; after the last file the generator
\* returns.
IterCacheAllStep ==
    /\ cache.pc = "iter_cache_all"
    /\ IF cache.next > Len(cache.files)
       THEN cache' = [cache EXCEPT !.pc = "done"]
       ELSE LET cache_file == cache.files[cache.next]
            IN  IF cache.kwargs # <<>> /\ ~check_attributes(cache_file, cache.kwargs)
                THEN cache' = [cache EXCEPT !.next = @ + 1]
                ELSE cache' = [cache EXCEPT !.next = @ + 1,
                                            !.yielded = Append(@, cache.next)]
    /\ UNCHANGED <<ck, pf, idb, sc>>

NextIterCache == IterCacheAllStep

SpecIterCache == InitIterCache /\ [][NextIterCache]_vars

\* What one header predicate asks of an entry: True the attribute present,
\* False absent, a string or collection the attribute present and matching.
PredicateHolds(header, p) ==
    LET att == Lower(ReplaceUnderscore(p.name))
    IN  CASE p.test.kind = "bool" /\ p.test.b  -> has_header_attribute(header, att)
          [] p.test.kind = "bool" /\ ~p.test.b -> ~has_header_attribute(header, att)
          [] OTHER -> /\ has_header_attribute(header, att)
                      /\ is_keysearch_hit(p.test, get_header_attribute(header, att))

\* C4: iter_cache yields an entry only if every supplied header predicate
\* holds for it, however many predicates there are and in whatever order.
C4_YieldedMeetsEveryPredicate ==
    \A n \in DOMAIN cache.yielded :
        \A j \in DOMAIN cache.kwargs :
            PredicateHolds(cache.files[cache.yielded[n]], cache.kwargs[j])

(***************************************************************************)
(* MozillaProfileFolder  (src/ccl_mozilla_reader/ccl_moz_profile_folder.py)*)
(***************************************************************************)

\* Origins under storage/default, each with one local-storage database and
\* one IndexedDB database.
NumHosts == 2
Hosts == 1..NumHosts

\* A SQLite connection is not yet made ("none"), "open" or "closed".
\* MozillaProfileFolder.__init__: the cache is set up, everything else is
\* None.  `places` stands for _places and its connection (made by
\* MozillaPlacesDatabase.__init__), `localstorage` for _localstorage and
\* `ls_db` for its _databases, `sessionstorage` for _sessionstorage,
\* `indexeddb` for _indexeddb and `idb_db` for the databases of the origins
\* it has opened.
ProfileFolder_init ==
    [places |-> "none",
     localstorage |-> FALSE, ls_db |-> [h \in Hosts |-> "none"],
     sessionstorage |-> FALSE,
     indexeddb |-> FALSE, idb_db |-> [h \in Hosts |-> "none"],
     pc |-> "in_use"]

InitProfileFolder ==
    /\ pf = ProfileFolder_init
    /\ ck = Idle /\ cache = Idle /\ idb = Idle /\ sc = Idle

\* _lazy_load_places: MozillaPlacesDatabase.__init__ connects.
lazy_load_places(f) ==
    IF f.places = "none" THEN [f EXCEPT !.places = "open"] ELSE f

\* _lazy_load_local_storage: LocalStoreDb.__init__ collects the hosts and
\* opens nothing.
lazy_load_local_storage(f) == [f EXCEPT !.localstorage = TRUE]

\* _lazy_load_session_storage: SessionStorage reads files, no connection.
lazy_load_session_storage(f) == [f EXCEPT !.sessionstorage = TRUE]

\* _lazy_load_indexeddb.
lazy_load_indexeddb(f) == [f EXCEPT !.indexeddb = TRUE]

\* LocalStoreDb._lazy_load_database for each host of `hosts`.
LocalStoreDb_lazy_load(dbs, hosts) ==
    [h \in Hosts |-> IF h \in hosts /\ dbs[h] = "none" THEN "open" ELSE dbs[h]]

\* MozillaIndexedDbBag.get_idb for each host of `hosts`: the origin's
\* MozillaIndexedDb is made on first use, and MozillaIndexedDbDatabase.__init__
\* connects.
IndexedDbBag_get_idb(dbs, hosts) ==
    [h \in Hosts |-> IF h \in hosts /\ dbs[h] = "none" THEN "open" ELSE dbs[h]]

\* MozillaPlacesDatabase.close.
PlacesDatabase_close(conn) == "closed"

\* MozillaProfileFolder.close.
ProfileFolder_close(f) ==
    [f EXCEPT !.places = IF f.places # "none" THEN PlacesDatabase_close(f.places) ELSE @,
              !.pc = "closed"]

\* iterate_history_records, iter_downloads.
IterateHistory ==
    /\ pf.pc = "in_use"
    /\ pf' = lazy_load_places(pf)
    /\ UNCHANGED <<ck, cache, idb, sc>>

\* iter_local_storage_hosts.
IterLocalStorageHosts ==
    /\ pf.pc = "in_use"
    /\ pf' = lazy_load_local_storage(pf)
    /\ UNCHANGED <<ck, cache, idb, sc>>

\* iter_local_storage, consumed up to the hosts in `hosts` (all the hosts
\* the storage key matches, or fewer when the consumer stops early).
IterLocalStorage ==
    /\ pf.pc = "in_use"
    /\ \E hosts \in SUBSET Hosts :
         pf' = [lazy_load_local_storage(pf) EXCEPT !.ls_db = LocalStoreDb_lazy_load(@, hosts)]
    /\ UNCHANGED <<ck, cache, idb, sc>>

\* iter_session_storage_hosts, iter_session_storage.
IterSessionStorage ==
    /\ pf.pc = "in_use"
    /\ pf' = lazy_load_session_storage(pf)
    /\ UNCHANGED <<ck, cache, idb, sc>>

\* iter_indexeddb_hosts.
IterIndexedDbHosts ==
    /\ pf.pc = "in_use"
    /\ pf' = lazy_load_indexeddb(pf)
    /\ UNCHANGED <<ck, cache, idb, sc>>

\* get_indexeddb(host), and iter_indexeddb_records over the matched hosts.
IterIndexedDbRecords ==
    /\ pf.pc = "in_use"
    /\ \E hosts \in SUBSET Hosts :
         pf' = [lazy_load_indexeddb(pf) EXCEPT !.idb_db = IndexedDbBag_get_idb(@, hosts)]
    /\ UNCHANGED <<ck, cache, idb, sc>>

\* close().
Close ==
    /\ pf.pc = "in_use"
    /\ pf' = ProfileFolder_close(pf)
    /\ UNCHANGED <<ck, cache, idb, sc>>

\* __exit__ at the end of a with-block, left normally or by an exception.
Exit ==
    /\ pf.pc = "in_use"
    /\ \E exc \in BOOLEAN : pf' = ProfileFolder_close(pf)
    /\ UNCHANGED <<ck, cache, idb, sc>>

NextProfileFolder ==
    \/ IterateHistory
    \/ IterLocalStorageHosts
    \/ IterLocalStorage
    \/ IterSessionStorage
    \/ IterIndexedDbHosts
    \/ IterIndexedDbRecords
    \/ Close
    \/ Exit

SpecProfileFolder == InitProfileFolder /\ [][NextProfileFolder]_vars

\* C5: after close() (or leaving the with-block) every SQLite connection
\* opened through the facade - places, each local-storage database, each
\* IndexedDB database - is closed.
C5_NoConnectionOpenAfterClose ==
    pf.pc = "closed" =>
        /\ pf.places # "open"
        /\ \A h \in Hosts : pf.ls_db[h] # "open"
        /\ \A h \in Hosts : pf.idb_db[h] # "open"

(***************************************************************************)
(* The IndexedDB key decoder  (src/ccl_moz_indexeddb_key.py)               *)
(***************************************************************************)

TOKEN_Terminator == 0
TOKEN_Float == 16     \* 0x10
TOKEN_Date == 32      \* 0x20
TOKEN_String == 48    \* 0x30
TOKEN_Binary == 64    \* 0x40
TOKEN_Array == 80     \* 0x50

\* Longest key decoded alone, and longest key of a pair of keys compared.
MaxIdbKeyLen == 3
MaxOrderedKeyLen == 2

\* The bytes keys are drawn from: the tags 0x00 0x10 0x20 0x30 0x40 0x50, the
\* unassigned tags 0x01 and 0x35, and 0x80 and 0xC0 (a payload byte with the
\* high bit set, the lead byte of a 2- and 3-byte character, and the array
\* tags 0x50 + 0x30 and 0x50 + 0x70).
IdbBytes == {0, 1, 16, 32, 48, 53, 64, 80, 128, 192}

\* Lexicographic order of byte strings (Python's bytes.__lt__).
RECURSIVE BytesLess(_, _)
BytesLess(a, b) ==
    IF b = <<>> THEN FALSE
    ELSE IF a = <<>> THEN TRUE
    ELSE IF a[1] # b[1] THEN a[1] < b[1]
    ELSE BytesLess(Tail(a), Tail(b))

NoneValue == [t |-> "None"]

\* _IdbKeyReader._read_until_nul from position pos: the run and the position
\* after it (past the NUL when there is one).
RECURSIVE read_until_nul(_, _, _)
read_until_nul(d, pos, buffer) ==
    IF pos >= Len(d) THEN [data |-> buffer, pos |-> pos]
    ELSE IF d[pos + 1] = 0 THEN [data |-> buffer, pos |-> pos + 1]
    ELSE read_until_nul(d, pos + 1, Append(buffer, d[pos + 1]))

\* _IdbKeyReader._read_float: up to 8 bytes, padded with 0x00.  A double is
\* held as its sign and the 8 bytes of its magnitude: with the high bit of
\* byte 0 set the bit is cleared and the bytes unpacked (a double >= 0),
\* otherwise the bytes are unpacked as they are and the double negated.
read_float(d, pos) ==
    LET end        == IF pos + 8 <= Len(d) THEN pos + 8 ELSE Len(d)
        number_raw == [i \in 1..8 |-> IF pos + i <= Len(d) THEN d[pos + i] ELSE 0]
    IN  IF number_raw[1] >= 128
        THEN [v |-> [t |-> "float", neg |-> FALSE,
                     mag |-> <<number_raw[1] - 128>> \o Tail(number_raw)], pos |-> end]
        ELSE [v |-> [t |-> "float", neg |-> TRUE, mag |-> number_raw], pos |-> end]

\* The doubles 253402300800000.0 and 62135596800000.0, big-endian: the
\* milliseconds from 1970 to the year 10000 and back to the year 1.
MsToYear10000 == <<66, 236, 206, 250, 67, 251, 128, 0>>
MsToYear1 == <<66, 204, 65, 137, 22, 108, 0, 0>>

\* The magnitude of the infinities; a greater one is a NaN.
Infinity == <<127, 240, 0, 0, 0, 0, 0, 0>>

\* datetime(1970, 1, 1) + timedelta(milliseconds=f): OverflowError outside
\* the years 1..9999 and for an infinity, ValueError for a NaN.
to_datetime(f) ==
    IF BytesLess(Infinity, f.mag) THEN [k |-> "err", exc |-> "ValueError"]
    ELSE IF (~f.neg /\ BytesLess(f.mag, MsToYear10000))
            \/ (f.neg /\ ~BytesLess(MsToYear1, f.mag))
    THEN [k |-> "val", v |-> [f EXCEPT !.t = "date"]]
    ELSE [k |-> "err", exc |-> "OverflowError"]

\* The while-loop of _read_string over the run `data` from index i (0-based).
RECURSIVE decode_chars(_, _, _, _)
decode_chars(data, i, chars, is_binary) ==
    IF i >= Len(data)
    THEN IF is_binary
         THEN IF \A n \in DOMAIN chars : chars[n] \in 0..255
              THEN [k |-> "val", v |-> [t |-> "bytes", bytes |-> chars]]
              ELSE [k |-> "err", exc |-> "ValueError"]     \* bytes() of a value over 255
         ELSE [k |-> "val", v |-> [t |-> "str", chars |-> chars]]
    ELSE LET byte_1 == data[i + 1]
         IN  IF byte_1 < 128
             THEN decode_chars(data, i + 1, Append(chars, byte_1 - 1), is_binary)
             ELSE IF byte_1 < 192
             THEN IF i + 1 >= Len(data) THEN [k |-> "err", exc |-> "IndexError"]
                  ELSE LET value == ((byte_1 % 64) * 256 + data[i + 2]) - 127
                       IN  IF value < 0 THEN [k |-> "err", exc |-> "ValueError"]  \* chr(), bytes()
                           ELSE decode_chars(data, i + 2, Append(chars, value), is_binary)
             ELSE IF i + 2 >= Len(data) THEN [k |-> "err", exc |-> "IndexError"]
                  ELSE LET value == ((byte_1 % 64) * 65536 + data[i + 2] * 256
                                        + (data[i + 3] \div 64) * 64) \div 64
                       IN  decode_chars(data, i + 3, Append(chars, value), is_binary)

\* _IdbKeyReader._read_string.
read_string(d, pos, is_binary) ==
    LET run == read_until_nul(d, pos, <<>>)
        r   == decode_chars(run.data, 0, <<>>, is_binary)
    IN  r @@ [pos |-> run.pos]

\* _read_token, read and the while-loop of the array branch.  Each returns
\*   k = "val": a value v was returned;  k = "term": TerminatorEncountered;
\*   k = "eot": EndOfTokens;  k = "err": another exception, exc;
\* with the stream position pos afterwards and the tokens dispatched so far.
\* _read_token has no branch for TOKEN_Binary: a token below TOKEN_Array that
\* no branch takes falls out of the if-chain and None is returned.
RECURSIVE read_token(_, _, _, _)
RECURSIVE read(_, _, _)
RECURSIVE read_array_loop(_, _, _, _)

read_token(d, token, pos, seen0) ==
    LET seen == seen0 \cup {token}
    IN  CASE token = TOKEN_Terminator -> [k |-> "term", pos |-> pos, seen |-> seen]
          [] token = TOKEN_Float ->
                LET f == read_float(d, pos)
                IN  [k |-> "val", v |-> f.v, pos |-> f.pos, seen |-> seen]
          [] token = TOKEN_Date ->
                LET f == read_float(d, pos)
                IN  to_datetime(f.v) @@ [pos |-> f.pos, seen |-> seen]
          [] token = TOKEN_String -> read_string(d, pos, FALSE) @@ [seen |-> seen]
          [] token >= TOKEN_Array ->
                LET next_token == token - TOKEN_Array
                IN  IF next_token > TOKEN_Terminator
                    THEN LET first == read_token(d, next_token, pos, seen)
                         IN  IF first.k = "val"
                             THEN read_array_loop(d, first.pos, <<first.v>>, first.seen)
                             ELSE first
                    ELSE read_array_loop(d, pos, <<>>, seen)
          [] OTHER -> [k |-> "val", v |-> NoneValue, pos |-> pos, seen |-> seen]

read(d, pos, seen) ==
    IF pos >= Len(d)
    THEN [k |-> "eot", pos |-> pos, seen |-> seen]
    ELSE read_token(d, d[pos + 1], pos + 1, seen)

read_array_loop(d, pos, result, seen) ==
    LET r == read(d, pos, seen)
    IN  CASE r.k = "val" -> read_array_loop(d, r.pos, Append(result, r.v), r.seen)
          [] r.k \in {"eot", "term"} ->
                [k |-> "val", v |-> [t |-> "tuple", items |-> result], pos |-> r.pos, seen |-> r.seen]
          [] OTHER -> r

IdbKeyReader_read(d) == read(d, 0, {})

\* MozillaIdbKey.from_bytes: what the caller gets.
from_bytes(raw_key) ==
    LET r == IdbKeyReader_read(raw_key)
    IN  CASE r.k = "val"  -> [status |-> "returned", value |-> r.v, exc |-> "", pos |-> r.pos, tokens |-> r.seen]
          [] r.k = "eot"  -> [status |-> "raised", value |-> NoneValue, exc |-> "EndOfTokens", pos |-> r.pos, tokens |-> r.seen]
          [] r.k = "term" -> [status |-> "raised", value |-> NoneValue, exc |-> "TerminatorEncountered", pos |-> r.pos, tokens |-> r.seen]
          [] OTHER        -> [status |-> "raised", value |-> NoneValue, exc |-> r.exc, pos |-> r.pos, tokens |-> r.seen]

\* The keys of the rows to decode, none decoded yet.
IdbRows(keys) == [keys |-> keys, results |-> <<>>, pc |-> "rows"]

InitIdbKey ==
    /\ idb \in {IdbRows(<<k>>) : k \in SeqsUpTo(IdbBytes, MaxIdbKeyLen)}
    /\ ck = Idle /\ cache = Idle /\ pf = Idle /\ sc = Idle

InitIdbOrder ==
    /\ \E k1, k2 \in SeqsUpTo(IdbBytes, MaxOrderedKeyLen) : idb = IdbRows(<<k1, k2>>)
    /\ ck = Idle /\ cache = Idle /\ pf = Idle /\ sc = Idle

\* MozillaIdbKey.from_bytes(row["key"]) for the next row.
FromBytes ==
    /\ idb.pc = "rows"
    /\ LET n == Len(idb.results) + 1
       IN  idb' = [idb EXCEPT !.results = Append(@, from_bytes(idb.keys[n])),
                              !.pc = IF n = Len(idb.keys) THEN "done" ELSE "rows"]
    /\ UNCHANGED <<ck, cache, pf, sc>>

NextIdb == FromBytes

SpecIdbKey == InitIdbKey /\ [][NextIdb]_vars
SpecIdbOrder == InitIdbOrder /\ [][NextIdb]_vars

(***************************************************************************)
(* Claims about the IndexedDB key decoder                                  *)
(***************************************************************************)

IdbDone == idb.pc = "done"

\* The first key decoded, and what from_bytes made of it.
Key1    == idb.keys[1]
Result1 == idb.results[1]

\* A key that is the Binary tag and a run of 1-byte-form bytes, with or
\* without the terminating NUL (a trailing 0x00 is truncated in a stored key).
BinaryKey(k) ==
    /\ Len(k) >= 2 /\ k[1] = TOKEN_Binary
    /\ \A i \in 2..Len(k) : k[i] < 128 /\ (k[i] = 0 => i = Len(k))

\* C6: a key whose tag byte is 0x40 (Binary) decodes to the bytes of its
\* NUL-terminated run, each decoded as a String character is but kept as a
\* byte, and the run and its terminator are consumed.
C6_BinaryKeyDecodesToBytes ==
    (IdbDone /\ BinaryKey(Key1)) =>
        LET expected == read_string(Key1, 1, TRUE)
        IN  /\ Result1.status = "returned"
            /\ Result1.value = expected.v
            /\ Result1.value.t = "bytes"
            /\ Result1.pos = Len(Key1)

\* A double as the encoder stores it: the Float tag and the 1 to 8 bytes left
\* of the sign-adjusted big-endian double once trailing 0x00 are truncated.
FloatKey(k) == Len(k) \in 2..9 /\ k[1] = TOKEN_Float /\ k[Len(k)] # 0

\* A string of 1-byte-form characters, its terminator truncated.
StringKey(k) == Len(k) >= 1 /\ k[1] = TOKEN_String /\ \A i \in 2..Len(k) : k[i] \in 1..127

\* The order of doubles, a double being its sign and the bytes of its
\* magnitude (-0.0 and 0.0 are equal).
IsZero(mag) == \A i \in DOMAIN mag : mag[i] = 0
FloatLess(a, b) ==
    CASE a.neg /\ ~b.neg  -> ~(IsZero(a.mag) /\ IsZero(b.mag))
      [] ~a.neg /\ b.neg  -> FALSE
      [] ~a.neg /\ ~b.neg -> BytesLess(a.mag, b.mag)
      [] OTHER            -> BytesLess(b.mag, a.mag)

\* The type-aware order of decoded keys: float < date < string < binary <
\* array, and inside a type the order of the doubles or of the code points.
TypeRank(v) ==
    CASE v.t = "float" -> 1 [] v.t = "date" -> 2 [] v.t = "str" -> 3
      [] v.t = "bytes" -> 4 [] v.t = "tuple" -> 5 [] OTHER -> 0
ValueLess(a, b) ==
    IF TypeRank(a) # TypeRank(b) THEN TypeRank(a) < TypeRank(b)
    ELSE CASE a.t = "float" -> FloatLess(a, b)
           [] a.t = "str"   -> BytesLess(a.chars, b.chars)
           [] OTHER         -> FALSE

\* C7: decoding preserves order: of two keys of which the first is below the
\* second byte-wise, the first decodes to the lesser value.  Stated for keys
\* that hold a double or a string, doubles of either sign.
C7_DecodingPreservesOrder ==
    (/\ IdbDone /\ Len(idb.keys) = 2
     /\ \A n \in 1..2 : FloatKey(idb.keys[n]) \/ StringKey(idb.keys[n])
     /\ BytesLess(idb.keys[1], idb.keys[2])) =>
        /\ \A n \in 1..2 : idb.results[n].status = "returned"
        /\ ValueLess(idb.results[1].value, idb.results[2].value)

\* The tag bytes the format assigns.
AssignedToken(t) ==
    t \in {TOKEN_Terminator, TOKEN_Float, TOKEN_Date, TOKEN_String, TOKEN_Binary}
        \/ t >= TOKEN_Array

\* C8: from_bytes fails, and returns no value, when the tag of the key or of
\* an element of an array in it is none of 0x00 0x10 0x20 0x30 0x40 and not
\* an Array tag, 0x01 and 0x35 for example.
C8_UnknownTagFails ==
    (IdbDone /\ \E t \in Result1.tokens : ~AssignedToken(t)) =>
        Result1.status = "raised"

(***************************************************************************)
(* StructuredCloneReader  (src/ccl_moz_structured_clone_reader.py)         *)
(*                                                                         *)
(* The stream is a sequence of bytes.  A 32-bit field is held as its four  *)
(* little-endian bytes, so a tag is compared byte by byte; a length, count *)
(* or index is an integer, saturated at Huge.  A double is its sign and    *)
(* the 8 big-endian bytes of its magnitude, as in the key decoder.         *)
(***************************************************************************)

\* 2^24: every unsigned field of that value or more is held as Huge, which
\* is beyond the length of any stream and of any table of the model, and
\* one of 2^63 or more, which no read takes as a size, as TooBig.
Huge == 2^24
TooBig == 2 * Huge

\* The four little-endian bytes of 0xFFFF0000 + lo.
TagBytes(lo) == <<lo % 256, lo \div 256, 255, 255>>

FLOAT_MAX              == <<0, 0, 240, 255>>     \* 0xFFF00000
HEADER                 == <<0, 0, 241, 255>>     \* 0xFFF10000
NULL                   == TagBytes(0)
UNDEFINED              == TagBytes(1)
BOOLEAN_TAG            == TagBytes(2)            \* BOOLEAN
INT32                  == TagBytes(3)
STRING_TAG             == TagBytes(4)            \* STRING
DATE_OBJECT            == TagBytes(5)
REGEXP_OBJECT          == TagBytes(6)
ARRAY_OBJECT           == TagBytes(7)
OBJECT_OBJECT          == TagBytes(8)
ARRAY_BUFFER_OBJECT_V2 == TagBytes(9)
BOOLEAN_OBJECT         == TagBytes(10)
STRING_OBJECT          == TagBytes(11)
NUMBER_OBJECT          == TagBytes(12)
BACK_REFERENCE_OBJECT  == TagBytes(13)
TYPED_ARRAY_OBJECT_V2  == TagBytes(16)
MAP_OBJECT             == TagBytes(17)
SET_OBJECT             == TagBytes(18)
END_OF_KEYS            == TagBytes(19)
BIGINT                 == TagBytes(29)
BIGINT_OBJECT          == TagBytes(30)
ARRAY_BUFFER_OBJECT    == TagBytes(31)
TYPED_ARRAY_OBJECT     == TagBytes(32)
DOM_BLOB               == TagBytes(32769)
DOM_FILE_WITHOUT_LASTMODIFIEDDATE == TagBytes(32770)
DOM_FILELIST           == TagBytes(32771)
DOM_FILE               == TagBytes(32773)
DOM_CRYPTOKEY          == TagBytes(32778)

\* The tags whose readers (_read_blob, _read_file, read_cryptokey) are not
\* followed here; no stream of the model holds one.
DomReaderTags == {DOM_BLOB, DOM_FILE_WITHOUT_LASTMODIFIEDDATE, DOM_FILE, DOM_CRYPTOKEY}

\* a < b for two 32-bit fields.
U32Less(a, b) == BytesLess(<<a[4], a[3], a[2], a[1]>>, <<b[4], b[3], b[2], b[1]>>)

\* StructuredDataType(tag) succeeds: tag is the value of a member.
IsStructuredDataType(tag) ==
    LET lo == tag[1] + 256 * tag[2]
    IN  \/ tag \in {FLOAT_MAX, HEADER}
        \/ /\ tag[3] = 255 /\ tag[4] = 255
           /\ lo \in (0..36) \cup (256..264) \cup (512..517) \cup (32768..32811)

\* An unsigned little-endian field as a length, count or index.
Unsigned(b) ==
    IF Len(b) = 8 /\ b[8] >= 128 THEN TooBig
    ELSE IF \E i \in 4..Len(b) : b[i] # 0 THEN Huge
    ELSE b[1] + 256 * b[2] + 65536 * b[3]

\* pair.data & 0x7fffffff, as a length.
Low31(b) == Unsigned(<<b[1], b[2], b[3], b[4] % 128>>)

\* The INT32 branch of _read: pair.data as a signed 32-bit integer.
Signed32(b) ==
    b[1] + 256 * b[2] + 65536 * b[3] + 16777216 * (IF b[4] >= 128 THEN b[4] - 256 ELSE b[4])

Reverse(b) == [i \in 1..Len(b) |-> b[Len(b) + 1 - i]]

\* struct.unpack("<d", b), and Pair.to_double of the pair whose 8 bytes b are.
Double(b) ==
    LET be == Reverse(b)
    IN  [t |-> "float", neg |-> be[1] >= 128, mag |-> <<be[1] % 128>> \o Tail(be)]

UndefinedValue == [t |-> "Undefined"]

\* What a read gives: k = "val" a value v; k = "eok" EndOfKeysException;
\* k = "err" another exception, exc; k = "dom" the pair went to a reader for
\* DOM objects.  pos is the stream position and flat the _flattened_objects
\* at that moment.
Val(v, pos, flat)     == [k |-> "val", v |-> v, exc |-> "", pos |-> pos, flat |-> flat]
Raise(exc, pos, flat) == [k |-> "err", v |-> NoneValue, exc |-> exc, pos |-> pos, flat |-> flat]
EndOfKeys(pos, flat)  == [k |-> "eok", v |-> NoneValue, exc |-> "EndOfKeysException", pos |-> pos, flat |-> flat]
DomObject(pos, flat)  == [k |-> "dom", v |-> NoneValue, exc |-> "", pos |-> pos, flat |-> flat]

\* _read_raw: the bytes; StructuredCloneReaderError on a short read
\* (BytesIO.read gives what is left and leaves the position at the end, or
\* where it was when already beyond it); OverflowError from read for a size
\* of 2^63 or more.
read_raw(s, pos, length) ==
    IF length = TooBig
    THEN [ok |-> FALSE, exc |-> "OverflowError", data |-> <<>>, pos |-> pos]
    ELSE IF length = 0 \/ pos + length <= Len(s)
    THEN [ok |-> TRUE, exc |-> "", data |-> SubSeq(s, pos + 1, pos + length), pos |-> pos + length]
    ELSE [ok |-> FALSE, exc |-> "StructuredCloneReaderError", data |-> <<>>,
          pos |-> IF pos > Len(s) THEN pos ELSE Len(s)]

\* _read_pair: the pair, StructuredCloneReaderError on a short read,
\* ValueError for a tag of FLOAT_MAX or more that is no StructuredDataType.
read_pair(s, pos) ==
    LET r == read_raw(s, pos, 8)
    IN  IF ~r.ok THEN [ok |-> FALSE, exc |-> r.exc, pos |-> r.pos]
        ELSE LET data == SubSeq(r.data, 1, 4)
                 tag  == SubSeq(r.data, 5, 8)
             IN  IF U32Less(tag, FLOAT_MAX) \/ IsStructuredDataType(tag)
                 THEN [ok |-> TRUE, data |-> data, tag |-> tag, pos |-> r.pos]
                 ELSE [ok |-> FALSE, exc |-> "ValueError", pos |-> r.pos]

\* _read_ulong / _read_double: 8 bytes, StructuredCloneReaderError when short.
read_ulong(s, pos) ==
    LET r == read_raw(s, pos, 8)
    IN  [ok |-> r.ok, exc |-> r.exc, value |-> IF r.ok THEN Unsigned(r.data) ELSE 0, pos |-> r.pos]

read_double(s, pos) ==
    LET r == read_raw(s, pos, 8)
    IN  [ok |-> r.ok, exc |-> r.exc, value |-> IF r.ok THEN Double(r.data) ELSE NoneValue,
         pos |-> r.pos]

\* A reader that never seeks to the next multiple of 8.
Mutant_align(pos) == pos

\* _align: seek to the next multiple of 8.
align(pos) == IF pos % 8 # 0 THEN pos + (8 - (pos % 8)) ELSE pos

\* bytes.decode("utf-16-le") of the code units from index i on: a surrogate
\* pair is one character, a surrogate alone UnicodeDecodeError.  An odd byte
\* count cannot occur, the length read being even.
RECURSIVE decode_utf16(_, _, _)
decode_utf16(data, i, chars) ==
    IF i >= Len(data) THEN [ok |-> TRUE, chars |-> chars]
    ELSE LET unit == data[i + 1] + 256 * data[i + 2]
         IN  IF unit \notin 55296..57343
             THEN decode_utf16(data, i + 2, Append(chars, unit))
             ELSE IF unit <= 56319 /\ i + 4 <= Len(data)
                     /\ (data[i + 3] + 256 * data[i + 4]) \in 56320..57343
             THEN decode_utf16(data, i + 4,
                      Append(chars, 65536 + (unit - 55296) * 1024
                                        + (data[i + 3] + 256 * data[i + 4] - 56320)))
             ELSE [ok |-> FALSE, chars |-> chars]

\* _read_string_internal for a pair read up to pos.  A string is the
\* sequence of its code points.
read_string_internal(s, pair, pos, flat) ==
    IF pair.tag \notin {STRING_TAG, STRING_OBJECT}
    THEN Raise("StructuredCloneReaderError", pos, flat)
    ELSE IF pair.data[4] < 128
    THEN LET r == read_raw(s, pos, 2 * Low31(pair.data))
             d == decode_utf16(r.data, 0, <<>>)
         IN  IF ~r.ok THEN Raise(r.exc, r.pos, flat)
             ELSE IF ~d.ok THEN Raise("UnicodeDecodeError", r.pos, flat)
             ELSE Val([t |-> "str", chars |-> d.chars], r.pos, flat)
    ELSE LET r == read_raw(s, pos, Low31(pair.data))
         IN  IF ~r.ok THEN Raise(r.exc, r.pos, flat)
             ELSE Val([t |-> "str", chars |-> r.data], r.pos, flat)

\* _read_string: a pair, unaligned, and the string it announces.
sc_read_string(s, pos, flat) ==
    LET p == read_pair(s, pos)
    IN  IF ~p.ok THEN Raise(p.exc, p.pos, flat)
        ELSE read_string_internal(s, p, p.pos, flat)

\* _read_bigint: the magnitude's bytes, little-endian, and the sign; -0 is 0.
read_bigint(s, pair, pos, flat) ==
    LET r == read_raw(s, pos, 8 * Low31(pair.data))
    IN  IF ~r.ok THEN Raise(r.exc, r.pos, flat)
        ELSE Val([t |-> "bigint",
                  neg |-> pair.data[4] >= 128 /\ \E i \in DOMAIN r.data : r.data[i] # 0,
                  bytes |-> r.data], r.pos, flat)

\* A dict as the sequence of its items in insertion order.  Python takes
\* True for 1 and False for 0 as a key; a double equal to an int is in no
\* stream of the model.
PyKey(v) == IF v.t = "bool" THEN [t |-> "int", n |-> IF v.b THEN 1 ELSE 0] ELSE v

DictHas(d, key) == \E i \in DOMAIN d : PyKey(d[i].key) = PyKey(key)

\* d[key] = value: the item of an equal key keeps its key and place.
DictPut(d, key, value) ==
    IF DictHas(d, key)
    THEN [i \in DOMAIN d |-> IF PyKey(d[i].key) = PyKey(key)
                             THEN [key |-> d[i].key, value |-> value] ELSE d[i]]
    ELSE Append(d, [key |-> key, value |-> value])

DictGet(d, key) == d[CHOOSE i \in DOMAIN d : PyKey(d[i].key) = PyKey(key)].value

\* hash(v) succeeds: not for a list, dict or set (held by reference or, an
\* empty list, by value) nor for _Undefined, which defines __eq__ alone.
Hashable(v) == v.t \notin {"ref", "list", "Undefined"}

\* unsparse_array.  `result` is the list at index `at` (0-based) of flat; an
\* empty sparse_dict gives a new empty list and leaves `result` as it is.
unsparse_array(at, length, sparse_dict, default, pos, flat) ==
    IF Len(sparse_dict) = 0
    THEN Val([t |-> "list", items |-> <<>>], pos, flat)
    ELSE IF \E i \in DOMAIN sparse_dict : sparse_dict[i].key.n < 0
    THEN Raise("ValueError", pos, flat)
    ELSE IF \E i \in DOMAIN sparse_dict : sparse_dict[i].key.n >= length
    THEN Raise("ValueError", pos, flat)
    ELSE LET items == [n \in 1..length |->
                          IF DictHas(sparse_dict, [t |-> "int", n |-> n - 1])
                          THEN DictGet(sparse_dict, [t |-> "int", n |-> n - 1])
                          ELSE default]
         IN  Val([t |-> "ref", i |-> at], pos,
                 [flat EXCEPT ![at + 1] = [t |-> "list", items |-> items]])

\* _SCALAR_TYPE_ELEMENT_LENGTH, by the value of the ScalarType.
ScalarTypeElementLength ==
    [x \in 0..10 |-> CASE x \in {0, 1, 8} -> 1 [] x \in {2, 3} -> 2
                       [] x \in {4, 5, 6} -> 4 [] OTHER -> 8]

Uint8Clamped == 8

\* The chunks of `size` bytes of data.
Chunks(data, size) ==
    [n \in 1..(Len(data) \div size) |-> SubSeq(data, (n - 1) * size + 1, n * size)]

\* ScalarType.data_to_array.  An element of the tuple struct.unpack gives is
\* held as the bytes it was unpacked from.
data_to_array(array_type, data, element_count, start_offset) ==
    IF Len(data) = 0 THEN [ok |-> TRUE, v |-> [t |-> "list", items |-> <<>>]]
    ELSE IF array_type \notin DOMAIN ScalarTypeElementLength
    THEN [ok |-> FALSE, exc |-> "KeyError"]
    ELSE LET element_size == ScalarTypeElementLength[array_type]
         IN  IF Len(data) - start_offset < element_count * element_size
             THEN [ok |-> FALSE, exc |-> "ValueError"]
             ELSE IF array_type = Uint8Clamped
             THEN [ok |-> TRUE, v |-> [t |-> "bytes",
                      bytes |-> SubSeq(data, start_offset + 1, start_offset + element_count)]]
             ELSE [ok |-> TRUE, v |-> [t |-> "tuple", array_type |-> array_type,
                      items |-> Chunks(SubSeq(data, start_offset + 1,
                                    element_count * element_size + start_offset), element_size)]]

\* _flattened_objects[index]: a list, dict or set is the object itself, held
\* by reference to its place in the table; anything else is the value.
IsContainer(v) == v.t \in {"list", "dict", "set"}
\* A table that always answers with its newest entry.
Mutant_FlatGet(flat, index) ==
    IF IsContainer(flat[Len(flat)]) THEN [t |-> "ref", i |-> Len(flat) - 1] ELSE flat[Len(flat)]
FlatGet(flat, index) ==
    IF IsContainer(flat[index + 1]) THEN [t |-> "ref", i |-> index] ELSE flat[index + 1]

\* The list, dict or set a value refers to, or the value itself.
Deref(flat, v) == IF v.t = "ref" THEN flat[v.i + 1] ELSE v

\* _read and the readers it calls.  Each takes the stream s, the position
\* and the table of flattened objects, and gives one of Val, EndOfKeys,
\* Raise, DomObject.  The loops take the place `at` (0-based) of the object
\* they fill in the table.
RECURSIVE sc_read(_, _, _, _)
RECURSIVE read_array_items(_, _, _, _, _, _)
RECURSIVE read_set_items(_, _, _, _)
RECURSIVE read_object_items(_, _, _, _)
RECURSIVE read_map_items(_, _, _, _)
RECURSIVE read_typed_array(_, _, _, _)

\* The while-loop of _read_array and the call of unsparse_array after it.
read_array_items(s, at, array_length, sparse_dict, pos, flat) ==
    LET key == sc_read(s, pos, flat, {INT32, END_OF_KEYS})
    IN  IF key.k = "eok"
        THEN unsparse_array(at, array_length, sparse_dict, UndefinedValue, key.pos, key.flat)
        ELSE IF key.k # "val" THEN key
        ELSE LET value == sc_read(s, key.pos, key.flat, {})
             IN  IF value.k # "val" THEN value
                 ELSE read_array_items(s, at, array_length,
                          DictPut(sparse_dict, key.v, value.v), value.pos, value.flat)

\* The while-loop of _read_set.  A set is held as the sequence of its
\* members in the order they were added.
read_set_items(s, at, pos, flat) ==
    LET value == sc_read(s, pos, flat, {})
    IN  IF value.k = "eok" THEN Val([t |-> "ref", i |-> at], value.pos, value.flat)
        ELSE IF value.k # "val" THEN value
        ELSE IF ~Hashable(value.v) THEN Raise("TypeError", value.pos, value.flat)
        ELSE LET members == value.flat[at + 1].items
                 added   == IF \E i \in DOMAIN members : PyKey(members[i]) = PyKey(value.v)
                            THEN members ELSE Append(members, value.v)
             IN  read_set_items(s, at, value.pos,
                     [value.flat EXCEPT ![at + 1] = [t |-> "set", items |-> added]])

\* The while-loop of _read_object.
read_object_items(s, at, pos, flat) ==
    LET key == sc_read(s, pos, flat, {STRING_TAG, STRING_OBJECT, END_OF_KEYS})
    IN  IF key.k = "eok" THEN Val([t |-> "ref", i |-> at], key.pos, key.flat)
        ELSE IF key.k # "val" THEN key
        ELSE LET value == sc_read(s, key.pos, key.flat, {})
             IN  IF value.k # "val" THEN value
                 ELSE read_object_items(s, at, value.pos,
                          [value.flat EXCEPT ![at + 1] =
                              [t |-> "dict", items |-> DictPut(@.items, key.v, value.v)]])

\* The while-loop of _read_map.
read_map_items(s, at, pos, flat) ==
    LET key == sc_read(s, pos, flat, {})
    IN  IF key.k = "eok" THEN Val([t |-> "ref", i |-> at], key.pos, key.flat)
        ELSE IF key.k # "val" THEN key
        ELSE LET value == sc_read(s, key.pos, key.flat, {})
             IN  IF value.k # "val" THEN value
                 ELSE IF ~Hashable(key.v) THEN Raise("TypeError", value.pos, value.flat)
                 ELSE read_map_items(s, at, value.pos,
                          [value.flat EXCEPT ![at + 1] =
                              [t |-> "dict", items |-> DictPut(@.items, key.v, value.v)]])

\* A reader that takes a start offset from the stream for TYPED_ARRAY_OBJECT
\* alone and has a TYPED_ARRAY_OBJECT_V2 start at offset 0.
Mutant_read_start_offset(s, pair, pos) ==
    IF pair.tag = TYPED_ARRAY_OBJECT THEN read_ulong(s, pos)
    ELSE [ok |-> TRUE, exc |-> "", value |-> 0, pos |-> pos]

\* _read_typed_array's read of the start offset (line 578): 8 bytes from
\* where the read of the backing buffer ended, whichever tag the pair has.
read_start_offset(s, pair, pos) == read_ulong(s, pos)

\* _read_typed_array(pair, False), the pair read up to pos.
read_typed_array(s, pair, pos, flat) ==
    LET head == read_ulong(s, pos)
        element_count == IF pair.tag = TYPED_ARRAY_OBJECT THEN head.value ELSE Unsigned(pair.data)
        array_type    == IF pair.tag = TYPED_ARRAY_OBJECT THEN Unsigned(pair.data) ELSE head.value
    IN  IF pair.tag = TYPED_ARRAY_OBJECT /\ array_type > 13
        THEN Raise("ValueError", pos, flat)                     \* ScalarType(pair.data)
        ELSE IF ~head.ok THEN Raise(head.exc, head.pos, flat)
        ELSE IF array_type > 13 THEN Raise("ValueError", head.pos, flat)
        ELSE LET backing_buffer == sc_read(s, head.pos, flat,
                     {BACK_REFERENCE_OBJECT, ARRAY_BUFFER_OBJECT, ARRAY_BUFFER_OBJECT_V2})
             IN  IF backing_buffer.k # "val" THEN backing_buffer
                 ELSE IF backing_buffer.v.t # "bytes"
                 THEN Raise("TypeError", backing_buffer.pos, backing_buffer.flat)
                 ELSE LET start_offset == read_start_offset(s, pair, backing_buffer.pos)
                          array == data_to_array(array_type, backing_buffer.v.bytes,
                                                 element_count, start_offset.value)
                      IN  IF ~start_offset.ok
                          THEN Raise(start_offset.exc, start_offset.pos,
                                     backing_buffer.flat)
                          ELSE IF ~array.ok
                          THEN Raise(array.exc, start_offset.pos, backing_buffer.flat)
                          ELSE Val(array.v, start_offset.pos, backing_buffer.flat)

\* A reader that puts the typed array in the first place of the table.
Mutant_ReplaceDummyObject(flat, dummy_object_index, result) ==
    [flat EXCEPT ![1] = result]

\* self._flattened_objects[dummy_object_index] = result (line 770): the
\* typed array takes the place of the Undefined appended before it was read.
ReplaceDummyObject(flat, dummy_object_index, result) ==
    [flat EXCEPT ![dummy_object_index + 1] = result]

\* Append to _flattened_objects what a reader returned, if it returned.
Flatten(r) == IF r.k = "val" THEN [r EXCEPT !.flat = Append(@, r.v)] ELSE r

\* _read(*expected_tags).  The message of the error for an unexpected tag
\* joins the tags, which are no strings: TypeError is what is raised.
sc_read(s, pos0, flat, expected_tags) ==
    LET pair == read_pair(s, align(pos0))
        pos  == pair.pos
        tag  == pair.tag
    IN  IF ~pair.ok THEN Raise(pair.exc, pos, flat)
        ELSE IF expected_tags # {} /\ tag \notin expected_tags THEN Raise("TypeError", pos, flat)
        ELSE IF U32Less(tag, FLOAT_MAX) THEN Val(Double(pair.data \o tag), pos, flat)
        ELSE CASE tag = NULL -> Val(NoneValue, pos, flat)
               [] tag = UNDEFINED -> Val(UndefinedValue, pos, flat)
               [] tag = BOOLEAN_TAG ->
                    Val([t |-> "bool", b |-> \E i \in 1..4 : pair.data[i] # 0], pos, flat)
               [] tag = BOOLEAN_OBJECT ->
                    Flatten(Val([t |-> "bool", b |-> \E i \in 1..4 : pair.data[i] # 0], pos, flat))
               [] tag = INT32 -> Val([t |-> "int", n |-> Signed32(pair.data)], pos, flat)
               [] tag = STRING_TAG -> read_string_internal(s, pair, pos, flat)
               [] tag = STRING_OBJECT -> Flatten(read_string_internal(s, pair, pos, flat))
               [] tag = DATE_OBJECT ->
                    LET value == read_double(s, pos)
                        result == to_datetime(value.value)
                    IN  IF ~value.ok THEN Raise(value.exc, value.pos, flat)
                        ELSE IF result.k = "err" THEN Raise(result.exc, value.pos, flat)
                        ELSE Flatten(Val(result.v, value.pos, flat))
               [] tag = REGEXP_OBJECT ->
                    \* re.compile of a pattern of the model does not fail
                    LET pattern == sc_read_string(s, pos, flat)
                    IN  IF pattern.k # "val" THEN pattern
                        ELSE Flatten([pattern EXCEPT !.v = [t |-> "regexp", pattern |-> @.chars]])
               [] tag = BIGINT -> read_bigint(s, pair, pos, flat)
               [] tag = BIGINT_OBJECT -> Flatten(read_bigint(s, pair, pos, flat))
               [] tag = NUMBER_OBJECT ->
                    LET result == read_double(s, pos)
                    IN  IF ~result.ok THEN Raise(result.exc, result.pos, flat)
                        ELSE Flatten(Val(result.value, result.pos, flat))
               [] tag = BACK_REFERENCE_OBJECT ->
                    IF Unsigned(pair.data) >= Len(flat) THEN Raise("IndexError", pos, flat)
                    ELSE Val(FlatGet(flat, Unsigned(pair.data)), pos, flat)
               [] tag = ARRAY_OBJECT ->
                    read_array_items(s, Len(flat), Unsigned(pair.data), <<>>, pos,
                                     Append(flat, [t |-> "list", items |-> <<>>]))
               [] tag = OBJECT_OBJECT ->
                    read_object_items(s, Len(flat), pos, Append(flat, [t |-> "dict", items |-> <<>>]))
               [] tag \in {TYPED_ARRAY_OBJECT, TYPED_ARRAY_OBJECT_V2} ->
                    LET dummy_object_index == Len(flat)
                        result == read_typed_array(s, pair, pos, Append(flat, UndefinedValue))
                        filled == ReplaceDummyObject(result.flat, dummy_object_index, result.v)
                    IN  IF result.k # "val" THEN result
                        ELSE Val(FlatGet(filled, dummy_object_index), result.pos, filled)
               [] tag = MAP_OBJECT ->
                    read_map_items(s, Len(flat), pos, Append(flat, [t |-> "dict", items |-> <<>>]))
               [] tag = SET_OBJECT ->
                    read_set_items(s, Len(flat), pos, Append(flat, [t |-> "set", items |-> <<>>]))
               [] tag = ARRAY_BUFFER_OBJECT ->
                    LET array_length == read_ulong(s, pos)
                        result == read_raw(s, array_length.pos, array_length.value)
                    IN  IF ~array_length.ok
                        THEN Raise(array_length.exc, array_length.pos, flat)
                        ELSE IF ~result.ok
                        THEN Raise(result.exc, result.pos, flat)
                        ELSE Flatten(Val([t |-> "bytes", bytes |-> result.data], result.pos, flat))
               [] tag = ARRAY_BUFFER_OBJECT_V2 ->
                    LET result == read_raw(s, pos, Unsigned(pair.data))
                    IN  IF ~result.ok THEN Raise(result.exc, result.pos, flat)
                        ELSE Flatten(Val([t |-> "bytes", bytes |-> result.data], result.pos, flat))
               [] tag \in DomReaderTags -> DomObject(pos, flat)
               [] tag = END_OF_KEYS -> EndOfKeys(pos, flat)
               [] OTHER -> Raise("NotImplementedError", pos, flat)

\* The 8-byte words streams are made of: a pair, a u64 and 8 bytes of data.
PairWord(tag, data) == <<data % 256, data \div 256, 0, 0>> \o tag
U64Word(n) == <<n % 256, n \div 256, 0, 0, 0, 0, 0, 0>>
DataWord == <<7, 8, 0, 0, 0, 0, 0, 0>>

RECURSIVE Concat(_)
Concat(words) == IF words = <<>> THEN <<>> ELSE words[1] \o Concat(Tail(words))

\* Most words after the first of a stream holding typed arrays, and of one
\* holding arrays.
MaxTypedArrayWords == 5
MaxArrayWords == 6

\* The streams of the words ws after a header pair, and those short ones
\* after a pair that is no header.
Streams(ws) ==
    {PairWord(HEADER, 0) \o Concat(ws)}
        \cup (IF Len(ws) <= 1 THEN {Concat(ws), PairWord(NULL, 0) \o Concat(ws)} ELSE {})

\* Typed arrays of both formats with their scalar type, count, buffer
\* (2 or 8 bytes long, or referred back to), data and start offset.
TypedArrayWords ==
    {PairWord(TYPED_ARRAY_OBJECT_V2, 2), PairWord(TYPED_ARRAY_OBJECT, 1),
     U64Word(0), U64Word(2),
     PairWord(ARRAY_BUFFER_OBJECT_V2, 2), PairWord(ARRAY_BUFFER_OBJECT_V2, 8),
     PairWord(BACK_REFERENCE_OBJECT, 0), DataWord}

\* Arrays of declared length 2 and 0 with keys, values and END_OF_KEYS.
ArrayWords ==
    {PairWord(ARRAY_OBJECT, 2), PairWord(ARRAY_OBJECT, 0),
     PairWord(INT32, 0), PairWord(INT32, 1), PairWord(BOOLEAN_TAG, 1),
     PairWord(END_OF_KEYS, 0)}

\* A stream handed to StructuredCloneReader, nothing read yet.
NewReader(stream) ==
    [stream |-> stream, pos |-> 0, scope |-> <<>>, flattened_objects |-> <<>>,
     status |-> "new", exc |-> "", result |-> NoneValue, pc |-> "init"]

InitTypedArray ==
    /\ \E ws \in SeqsUpTo(TypedArrayWords, MaxTypedArrayWords) : \E stream \in Streams(ws) :
            sc = NewReader(stream)
    /\ ck = Idle /\ cache = Idle /\ pf = Idle /\ idb = Idle

InitArrayObject ==
    /\ \E ws \in SeqsUpTo(ArrayWords, MaxArrayWords) : \E stream \in Streams(ws) :
            sc = NewReader(stream)
    /\ ck = Idle /\ cache = Idle /\ pf = Idle /\ idb = Idle

\* StructuredCloneReader.__init__: the header pair is read and checked.
Construct ==
    /\ sc.pc = "init"
    /\ LET header_pair == read_pair(sc.stream, sc.pos)
       IN  sc' = IF ~header_pair.ok
                 THEN [sc EXCEPT !.pos = header_pair.pos, !.status = "raised",
                                 !.exc = header_pair.exc, !.pc = "done"]
                 ELSE IF header_pair.tag # HEADER
                 THEN [sc EXCEPT !.pos = header_pair.pos, !.status = "raised",
                                 !.exc = "StructuredCloneReaderError", !.pc = "done"]
                 ELSE [sc EXCEPT !.pos = header_pair.pos, !.scope = header_pair.data,
                                 !.status = "constructed", !.pc = "read_root"]
    /\ UNCHANGED <<ck, cache, pf, idb>>

\* StructuredCloneReader.read_root.
ReadRoot ==
    /\ sc.pc = "read_root"
    /\ LET r == sc_read(sc.stream, sc.pos, sc.flattened_objects, {})
       IN  sc' = [sc EXCEPT !.pos = r.pos, !.flattened_objects = r.flat,
                            !.status = IF r.k = "val" THEN "returned" ELSE "raised",
                            !.exc = r.exc, !.result = r.v, !.pc = "done"]
    /\ UNCHANGED <<ck, cache, pf, idb>>

NextStructuredClone == Construct \/ ReadRoot

SpecTypedArray == InitTypedArray /\ [][NextStructuredClone]_vars
SpecArrayObject == InitArrayObject /\ [][NextStructuredClone]_vars

(***************************************************************************)
(* Claims about the structured-clone reader                                *)
(***************************************************************************)

ReaderDone     == sc.pc = "done"
ReaderReturned == ReaderDone /\ sc.status = "returned"

\* The root pair is a typed array of the given tag, and the pair after its
\* u64 is an ARRAY_BUFFER_OBJECT_V2: the buffer's bytes start at offset 32.
TypedArrayOverBuffer(tag) ==
    /\ Len(sc.stream) >= 32
    /\ SubSeq(sc.stream, 5, 8) = HEADER
    /\ SubSeq(sc.stream, 13, 16) = tag
    /\ SubSeq(sc.stream, 29, 32) = ARRAY_BUFFER_OBJECT_V2

BufferLength == Unsigned(SubSeq(sc.stream, 25, 28))
BufferEnd    == 32 + BufferLength
BufferBytes  == SubSeq(sc.stream, 33, BufferEnd)

\* The count and scalar type of the root typed array: TYPED_ARRAY_OBJECT_V2
\* has the count in the pair and the type in the u64, TYPED_ARRAY_OBJECT the
\* type in the pair and the count in the u64.
RootIsV2         == SubSeq(sc.stream, 13, 16) = TYPED_ARRAY_OBJECT_V2
RootElementCount ==
    IF RootIsV2 THEN Unsigned(SubSeq(sc.stream, 9, 12)) ELSE Unsigned(SubSeq(sc.stream, 17, 24))
RootArrayType ==
    IF RootIsV2 THEN Unsigned(SubSeq(sc.stream, 17, 24)) ELSE Unsigned(SubSeq(sc.stream, 9, 12))

\* The elements of the root typed array when taken from offset `from`.
ElementsFrom(from) ==
    LET size == ScalarTypeElementLength[RootArrayType]
    IN  Chunks(SubSeq(BufferBytes, from + 1, from + RootElementCount * size), size)

\* The 8 bytes after the buffer's bytes, as a u64.
OffsetAfterBuffer == Unsigned(SubSeq(sc.stream, BufferEnd + 1, BufferEnd + 8))

\* C9 (as stated): for a TYPED_ARRAY_OBJECT_V2 only the u64 scalar type and
\* the buffer are consumed: with the buffer's bytes in the stream and long
\* enough for the elements, the typed array is returned, the position is
\* the end of the buffer (aligned or not) and the elements are those from
\* buffer offset 0.
C9_V2ReadsNoStartOffset ==
    (/\ ReaderDone /\ TypedArrayOverBuffer(TYPED_ARRAY_OBJECT_V2)
     /\ BufferLength > 0 /\ BufferEnd <= Len(sc.stream)
     /\ RootArrayType \in DOMAIN ScalarTypeElementLength
     /\ RootElementCount * ScalarTypeElementLength[RootArrayType] <= BufferLength) =>
        /\ sc.status = "returned"
        /\ sc.pos \in {BufferEnd, align(BufferEnd)}
        /\ sc.result.items = ElementsFrom(0)

\* C9 (amended): for a TYPED_ARRAY_OBJECT_V2 as for a TYPED_ARRAY_OBJECT the
\* reader takes the 8 bytes that follow the buffer's bytes as a u64 start
\* offset: a typed array is returned only if they are in the stream, the
\* position is then 8 past the end of the buffer and the elements are those
\* from that offset.
C9_BothFormatsReadStartOffset ==
    \A tag \in {TYPED_ARRAY_OBJECT_V2, TYPED_ARRAY_OBJECT} :
        (ReaderReturned /\ TypedArrayOverBuffer(tag) /\ BufferLength > 0) =>
            /\ BufferEnd + 8 <= Len(sc.stream)
            /\ sc.pos = BufferEnd + 8
            /\ sc.result.t = "tuple"
            /\ sc.result.items = ElementsFrom(OffsetAfterBuffer)

C9_Witness ==
    /\ ReaderReturned /\ TypedArrayOverBuffer(TYPED_ARRAY_OBJECT_V2)
    /\ BufferLength = 8 /\ OffsetAfterBuffer = 2 /\ RootElementCount = 2
    /\ sc.pos = 48
    /\ sc.result.items = <<<<0>>, <<0>>>>

\* The tag and the data of word j of the stream, the header being word 0.
HasWord(j) == Len(sc.stream) >= 8 * j + 8
TagAt(j)   == SubSeq(sc.stream, 8 * j + 5, 8 * j + 8)
DataAt(j)  == SubSeq(sc.stream, 8 * j + 1, 8 * j + 4)

\* Word j is a pair that is a value by itself, and that value.
IsScalarAt(j) == HasWord(j) /\ TagAt(j) \in {INT32, BOOLEAN_TAG}
ScalarAt(j) ==
    IF TagAt(j) = INT32 THEN [t |-> "int", n |-> Signed32(DataAt(j))]
    ELSE [t |-> "bool", b |-> DataAt(j) # <<0, 0, 0, 0>>]

\* The word that ends the keys of an array whose first key is word j, when
\* the words from j on are INT32 keys each with a scalar value and then
\* END_OF_KEYS; 0 otherwise.
RECURSIVE KeysEnd(_)
KeysEnd(j) ==
    IF ~HasWord(j) THEN 0
    ELSE IF TagAt(j) = END_OF_KEYS THEN j
    ELSE IF TagAt(j) = INT32 /\ IsScalarAt(j + 1) THEN KeysEnd(j + 2)
    ELSE 0

\* The root is an array of scalars with its keys in words 2, 4, ... and
\* their values in words 3, 5, ...
RootIsArrayOfScalars ==
    /\ HasWord(1) /\ TagAt(0) = HEADER /\ TagAt(1) = ARRAY_OBJECT
    /\ KeysEnd(2) # 0

RootArrayLength == Unsigned(DataAt(1))
RootKeyWords    == {j \in 2..KeysEnd(2) - 1 : j % 2 = 0}
RootKeys        == {Signed32(DataAt(j)) : j \in RootKeyWords}

\* The value of key i: that of the last word holding the key.
RootValueOf(i) ==
    LET last == CHOOSE j \in RootKeyWords :
                    /\ Signed32(DataAt(j)) = i
                    /\ \A m \in RootKeyWords : Signed32(DataAt(m)) = i => m <= j
    IN  ScalarAt(last + 1)

\* C10: an ARRAY_OBJECT of declared length n decodes to a list of exactly n
\* entries, entry i the value of key i when the key is present and Undefined
\* when it is not, whatever keys below n are present, none at all included.
C10_ArrayHasDeclaredLength ==
    (ReaderDone /\ RootIsArrayOfScalars /\ \A i \in RootKeys : i \in 0..RootArrayLength - 1) =>
        /\ sc.status = "returned"
        /\ LET items == Deref(sc.flattened_objects, sc.result).items
           IN  /\ Len(items) = RootArrayLength
               /\ \A i \in 0..RootArrayLength - 1 :
                      items[i + 1] = IF i \in RootKeys THEN RootValueOf(i) ELSE UndefinedValue

(***************************************************************************)
(* Back references: a reader whose read_root is called again              *)
(***************************************************************************)

\* Most words after the header of a stream holding back references.
MaxBackReferenceWords == 4

\* A set, an object that enters the table (BOOLEAN_OBJECT), a plain value,
\* back references to entries 0 and 1, and END_OF_KEYS.
BackReferenceWords ==
    {PairWord(SET_OBJECT, 0), PairWord(BOOLEAN_OBJECT, 1), PairWord(INT32, 0),
     PairWord(BACK_REFERENCE_OBJECT, 0), PairWord(BACK_REFERENCE_OBJECT, 1),
     PairWord(END_OF_KEYS, 0)}

InitBackReference ==
    /\ \E ws \in SeqsUpTo(BackReferenceWords, MaxBackReferenceWords) :
            \E stream \in Streams(ws) : sc = NewReader(stream)
    /\ ck = Idle /\ cache = Idle /\ pf = Idle /\ idb = Idle

\* read_root called again on a reader whose last read_root returned: the
\* stream goes on where it stopped and _flattened_objects is the same table.
ReadRootAgain ==
    /\ sc.pc = "done" /\ sc.status = "returned"
    /\ \E r \in {sc_read(sc.stream, sc.pos, sc.flattened_objects, {})} :
           sc' = [sc EXCEPT !.pos = r.pos, !.flattened_objects = r.flat,
                            !.status = IF r.k = "val" THEN "returned" ELSE "raised",
                            !.exc = r.exc, !.result = r.v]
    /\ UNCHANGED <<ck, cache, pf, idb>>

NextBackReference == Construct \/ ReadRoot \/ ReadRootAgain

SpecBackReference == InitBackReference /\ [][NextBackReference]_vars

\* The pair that the next read_root starts with.
NextWord    == align(sc.pos) \div 8
NextIsBackReference ==
    /\ sc.pc \in {"read_root", "done"} /\ sc.status \in {"constructed", "returned"}
    /\ HasWord(NextWord) /\ TagAt(NextWord) = BACK_REFERENCE_OBJECT

\* A read of a BACK_REFERENCE_OBJECT pair with data i at the top level:
\* entry i of the table as it was before the pair was read is returned when
\* i is below the size of that table, IndexError is raised when it is not,
\* and the table is left as it was.
BackReferenceStep ==
    NextIsBackReference =>
        LET i == Unsigned(DataAt(NextWord))
        IN  /\ sc'.flattened_objects = sc.flattened_objects
            /\ sc'.pos = 8 * NextWord + 8
            /\ IF i < Len(sc.flattened_objects)
               THEN /\ sc'.status = "returned"
                    /\ Deref(sc'.flattened_objects, sc'.result) = sc.flattened_objects[i + 1]
               ELSE sc'.status = "raised" /\ sc'.exc = "IndexError"

\* The members of a root SET_OBJECT from word j on, the table holding `size`
\* entries: "bad" at the first back reference to an entry the table does not
\* hold yet, "end" at END_OF_KEYS when every member before it was an INT32, a
\* BOOLEAN_OBJECT (which enters the table) or a back reference to an entry
\* other than the set, "other" in every other case.
RECURSIVE ScanSet(_, _)
ScanSet(j, size) ==
    IF ~HasWord(j) THEN [kind |-> "other", at |-> j]
    ELSE CASE TagAt(j) = END_OF_KEYS -> [kind |-> "end", at |-> j]
           [] TagAt(j) = INT32 -> ScanSet(j + 1, size)
           [] TagAt(j) = BOOLEAN_OBJECT -> ScanSet(j + 1, size + 1)
           [] TagAt(j) = BACK_REFERENCE_OBJECT ->
                IF Unsigned(DataAt(j)) >= size THEN [kind |-> "bad", at |-> j]
                ELSE IF Unsigned(DataAt(j)) = 0 THEN [kind |-> "other", at |-> j]
                ELSE ScanSet(j + 1, size)
           [] OTHER -> [kind |-> "other", at |-> j]

RootIsSet == HasWord(1) /\ TagAt(0) = HEADER /\ TagAt(1) = SET_OBJECT

\* The word of the BOOLEAN_OBJECT that is entry i >= 1 of the table of a root set.
ObjectWord(i) ==
    CHOOSE j \in 2..(Len(sc.stream) \div 8) :
        /\ TagAt(j) = BOOLEAN_OBJECT
        /\ Cardinality({m \in 2..j : TagAt(m) = BOOLEAN_OBJECT}) = i

\* The first read_root of a root set: a back reference to an entry not yet
\* in the table ends the decode with IndexError at that pair; otherwise
\* every back reference in the set gives the object that entered the table
\* as entry i, which an earlier word of the stream holds.
BackReferencesInSet ==
    (sc.pc = "read_root" /\ sc'.pc = "done" /\ RootIsSet) =>
        LET scan == ScanSet(2, 1)
            flat == sc'.flattened_objects
        IN  /\ scan.kind = "bad" =>
                /\ sc'.status = "raised" /\ sc'.exc = "IndexError"
                /\ sc'.pos = 8 * scan.at + 8
            /\ scan.kind = "end" =>
                /\ sc'.status = "returned"
                /\ \A j \in 2..scan.at :
                       TagAt(j) = BACK_REFERENCE_OBJECT =>
                           LET w == ObjectWord(Unsigned(DataAt(j)))
                               b == [t |-> "bool", b |-> DataAt(w) # <<0, 0, 0, 0>>]
                           IN  /\ w < j
                               /\ flat[Unsigned(DataAt(j)) + 1] = b
                               /\ \E n \in DOMAIN flat[1].items :
                                      PyKey(flat[1].items[n]) = PyKey(b)

\* C11: a BACK_REFERENCE_OBJECT pair with data i returns entry i of the
\* flattened-object table when i is below the table's size at that moment,
\* an entry whose decoding started earlier in the stream, and the decode
\* fails when i is the size or more.
C11_BackReferenceResolves == [][BackReferenceStep /\ BackReferencesInSet]_vars

\* After a root set with one object in it, a second read_root returned
\* entry 1 of the table of two.
C11_Witness ==
    /\ ReaderReturned /\ Len(sc.flattened_objects) = 2
    /\ sc.pos = Len(sc.stream) /\ TagAt(sc.pos \div 8 - 1) = BACK_REFERENCE_OBJECT
    /\ Unsigned(DataAt(sc.pos \div 8 - 1)) = 1
    /\ sc.result = sc.flattened_objects[2]
    /\ RootIsSet /\ TagAt(2) = BOOLEAN_OBJECT

(***************************************************************************)
(* BinaryReader, CacheFileMetadata and CacheFile                           *)
(* (src/ccl_mozilla_reader/ccl_moz_cache.py)                               *)
(*                                                                         *)
(* A cache entry file is a sequence of bytes f; a reader on it is the pair *)
(* of f and the position pos.  The NUL character of a decoded text is      *)
(* written "\\0".                                                          *)
(***************************************************************************)

\* CacheFile._CHUNK_SIZE = 256 * 1024
CHUNK_SIZE == 256 * 1024

\* math.ceil(offset / CacheFile._CHUNK_SIZE)
CeilDiv(a, b) == (a + b - 1) \div b

\* stream.read(count) at pos, and stream.read() to the end.
StreamRead(f, pos, count) ==
    IF pos >= Len(f) THEN <<>> ELSE SubSeq(f, pos + 1, IF pos + count > Len(f) THEN Len(f) ELSE pos + count)
BinaryReader_read_until_end(f, pos) == StreamRead(f, pos, Len(f))

\* BinaryReader.read_raw: ValueError when fewer than count bytes are left.
BinaryReader_read_raw(f, pos, count) ==
    LET result == StreamRead(f, pos, count)
    IN  IF Len(result) # count
        THEN [ok |-> FALSE, exc |-> "ValueError", data |-> result, pos |-> pos + Len(result)]
        ELSE [ok |-> TRUE, exc |-> "", data |-> result, pos |-> pos + count]

\* struct.unpack(">I", raw) and struct.unpack(">H", raw) as a size or offset.
UnsignedBE(raw) == Unsigned(Reverse(raw))

\* The characters of the bytes that the texts of the entry files hold; any
\* other character is written "?".
Chr(b) ==
    CASE b = 0 -> "\\0" [] b = 44 -> "," [] b = 58 -> ":"
      [] b = 65 -> "A" [] b = 66 -> "B" [] b = 88 -> "X"
      [] b = 97 -> "a" [] b = 98 -> "b" [] b = 120 -> "x"
      [] OTHER -> "?"

\* bytes.decode("ascii"): UnicodeDecodeError on a byte above 0x7f.
decode_ascii(raw) ==
    IF \E i \in DOMAIN raw : raw[i] >= 128
    THEN [ok |-> FALSE, exc |-> "UnicodeDecodeError", text |-> <<>>]
    ELSE [ok |-> TRUE, exc |-> "", text |-> [i \in 1..Len(raw) |-> Chr(raw[i])]]

\* bytes.decode("utf-8") of bytes that are ASCII or one of 0xf8..0xff, the
\* bytes that no UTF-8 sequence holds.
decode_utf8(raw) ==
    IF \E i \in DOMAIN raw : raw[i] >= 248
    THEN [ok |-> FALSE, exc |-> "UnicodeDecodeError", text |-> <<>>]
    ELSE [ok |-> TRUE, exc |-> "", text |-> [i \in 1..Len(raw) |-> Chr(raw[i])]]

\* BinaryReader.read_utf8
BinaryReader_read_utf8(f, pos, count) ==
    LET raw == BinaryReader_read_raw(f, pos, count)
    IN  IF ~raw.ok THEN [ok |-> FALSE, exc |-> raw.exc, text |-> <<>>, pos |-> raw.pos]
        ELSE LET d == decode_utf8(raw.data)
             IN  [ok |-> d.ok, exc |-> d.exc, text |-> d.text, pos |-> raw.pos]

\* tuple(reader.read_uint16() for _ in range(chunk_count))
RECURSIVE read_chunk_hashes(_, _, _, _)
read_chunk_hashes(f, pos, chunk_count, hashes) ==
    IF chunk_count = 0 THEN [ok |-> TRUE, exc |-> "", hashes |-> hashes, pos |-> pos]
    ELSE LET raw == BinaryReader_read_raw(f, pos, 2)
         IN  IF ~raw.ok THEN [ok |-> FALSE, exc |-> raw.exc, hashes |-> hashes, pos |-> raw.pos]
             ELSE read_chunk_hashes(f, raw.pos, chunk_count - 1, Append(hashes, raw.data))

\* bytes.split(b"\x00"): the runs between the NUL bytes, one more than there
\* are NUL bytes.
RECURSIVE SplitNul(_, _, _)
SplitNul(raw, i, run) ==
    IF i > Len(raw) THEN <<run>>
    ELSE IF raw[i] = 0 THEN <<run>> \o SplitNul(raw, i + 1, <<>>)
    ELSE SplitNul(raw, i + 1, Append(run, raw[i]))
Mutant_split(raw) == SplitNul(raw \o <<0>>, 1, <<>>)
bytes_split(raw) == SplitNul(raw, 1, <<>>)

\* The dict comprehension of from_reader over the pairs from field i on: a
\* later pair replaces an earlier one of the same lower-cased name.
RECURSIVE elements_dict(_, _, _)
elements_dict(split, i, acc) ==
    IF i > Len(split) THEN [ok |-> TRUE, exc |-> "", elements |-> acc]
    ELSE LET name  == decode_ascii(split[i])
             value == decode_ascii(split[i + 1])
         IN  IF ~name.ok \/ ~value.ok
             THEN [ok |-> FALSE, exc |-> "UnicodeDecodeError", elements |-> acc]
             ELSE elements_dict(split, i + 2,
                      [n \in DOMAIN acc \cup {Lower(name.text)} |->
                          IF n = Lower(name.text) THEN value.text ELSE acc[n]])

\* CacheKey(key): __init__ runs _read_tags to its end.
RECURSIVE CacheKey_run(_)
CacheKey_run(k) == IF k.pc = "read_tags" THEN CacheKey_run(CacheKey_read_tags(k)) ELSE k
CacheKey(raw_key) == CacheKey_run(CacheKey_init(raw_key))

MetadataError(exc) == [ok |-> FALSE, exc |-> exc, metadata |-> Idle]

\* `version != 3` is what from_reader refuses.
Mutant_version_supported(version) == TRUE
version_supported(version) == version = 3

\* CacheFileMetadata.from_reader(reader, chunk_count) with the reader at pos0.
from_reader(f, pos0, chunk_count) ==
    LET metadata_hash == BinaryReader_read_raw(f, pos0, 4)
        chunk_hashes  == read_chunk_hashes(f, metadata_hash.pos, chunk_count, <<>>)
        version       == BinaryReader_read_raw(f, chunk_hashes.pos, 4)
        fetch_count   == BinaryReader_read_raw(f, version.pos, 4)
        last_fetched  == BinaryReader_read_raw(f, fetch_count.pos, 4)
        last_modified == BinaryReader_read_raw(f, last_fetched.pos, 4)
        frecency      == BinaryReader_read_raw(f, last_modified.pos, 4)
        expiration    == BinaryReader_read_raw(f, frecency.pos, 4)
        key_size      == BinaryReader_read_raw(f, expiration.pos, 4)
        flags         == BinaryReader_read_raw(f, key_size.pos, 4)
        key           == BinaryReader_read_utf8(f, flags.pos, UnsignedBE(key_size.data) + 1)
        elements_raw  == BinaryReader_read_until_end(f, key.pos)
        trimmed       == SubSeq(elements_raw, 1, Len(elements_raw) - 4)
        split         == bytes_split(SubSeq(trimmed, 1, Len(trimmed) - 1))
        elements      == elements_dict(split, 1, <<>>)
        cache_key     == CacheKey(SubSeq(key.text, 1, Len(key.text) - 1))
    IN  IF ~metadata_hash.ok THEN MetadataError(metadata_hash.exc)
        ELSE IF ~chunk_hashes.ok THEN MetadataError(chunk_hashes.exc)
        ELSE IF ~version.ok THEN MetadataError(version.exc)
        ELSE IF ~version_supported(UnsignedBE(version.data)) THEN MetadataError("ValueError")
        ELSE IF ~fetch_count.ok THEN MetadataError(fetch_count.exc)
        ELSE IF ~last_fetched.ok THEN MetadataError(last_fetched.exc)
        ELSE IF ~last_modified.ok THEN MetadataError(last_modified.exc)
        ELSE IF ~frecency.ok THEN MetadataError(frecency.exc)
        ELSE IF ~expiration.ok THEN MetadataError(expiration.exc)
        ELSE IF ~key_size.ok THEN MetadataError(key_size.exc)
        ELSE IF ~flags.ok THEN MetadataError(flags.exc)
        ELSE IF ~key.ok THEN MetadataError(key.exc)
        ELSE IF Last(key.text) # "\\0" THEN MetadataError("ValueError")
        ELSE IF Len(elements_raw) < 4 THEN MetadataError("struct.error")
        ELSE IF trimmed = <<>> \/ Last(trimmed) # 0 THEN MetadataError("ValueError")
        ELSE IF Len(split) % 2 # 0 THEN MetadataError("ValueError")
        ELSE IF ~elements.ok THEN MetadataError(elements.exc)
        ELSE IF cache_key.status # "ok" THEN MetadataError("ValueError")
        ELSE [ok |-> TRUE, exc |-> "",
              metadata |-> [metadata_hash |-> metadata_hash.data,
                            chunk_hashes |-> chunk_hashes.hashes,
                            version |-> UnsignedBE(version.data),
                            fetch_count |-> fetch_count.data,
                            last_fetched |-> last_fetched.data,
                            last_modified |-> last_modified.data,
                            frecency |-> frecency.data,
                            expiration |-> expiration.data,
                            key_size |-> UnsignedBE(key_size.data),
                            flags |-> flags.data,
                            key |-> cache_key,
                            offset |-> UnsignedBE(SubSeq(elements_raw, Len(elements_raw) - 3,
                                                         Len(elements_raw))),
                            elements |-> elements.elements]]

\* The first lines of CacheFile.read_metadata and CacheFile.from_file:
\* seek(-4, SEEK_END) raises OSError on a file shorter than 4 bytes.
read_metadata(f) ==
    IF Len(f) < 4 THEN MetadataError("OSError")
    ELSE LET offset == UnsignedBE(SubSeq(f, Len(f) - 3, Len(f)))
         IN  from_reader(f, offset, CeilDiv(offset, CHUNK_SIZE))

(***************************************************************************)
(* parse_http_headers and the header map of a CacheFile                    *)
(***************************************************************************)

\* str.splitlines(keepends=False) of a text whose line ends are "\n", "\r"
\* and "\r\n".
RECURSIVE SplitLinesFrom(_, _, _)
SplitLinesFrom(text, i, run) ==
    IF i > Len(text) THEN (IF run = <<>> THEN <<>> ELSE <<run>>)
    ELSE IF text[i] = "\r" /\ i < Len(text) /\ text[i + 1] = "\n"
         THEN <<run>> \o SplitLinesFrom(text, i + 2, <<>>)
    ELSE IF text[i] \in {"\r", "\n"} THEN <<run>> \o SplitLinesFrom(text, i + 1, <<>>)
    ELSE SplitLinesFrom(text, i + 1, Append(run, text[i]))
splitlines(text) == SplitLinesFrom(text, 1, <<>>)

Whitespace == {" ", "\t", "\r", "\n"}

\* str.lstrip(chars), str.rstrip(chars) and str.strip().
RECURSIVE lstrip(_, _)
lstrip(text, chars) ==
    IF text # <<>> /\ Head(text) \in chars THEN lstrip(Tail(text), chars) ELSE text
RECURSIVE rstrip(_, _)
rstrip(text, chars) ==
    IF text # <<>> /\ Last(text) \in chars
    THEN rstrip(SubSeq(text, 1, Len(text) - 1), chars) ELSE text
strip(text) == rstrip(lstrip(text, Whitespace), Whitespace)

\* The index of the first character of text that is in chars, or Len + 1.
RECURSIVE FindFirst(_, _, _)
FindFirst(text, chars, i) ==
    IF i > Len(text) \/ text[i] \in chars THEN i ELSE FindFirst(text, chars, i + 1)

\* str.split(None, 1): at most two fields, split at the first run of white
\* space.
split_once(text) ==
    LET t == lstrip(text, Whitespace)
        i == FindFirst(t, Whitespace, 1)
        rest == lstrip(SubSeq(t, i, Len(t)), Whitespace)
    IN  IF t = <<>> THEN <<>>
        ELSE IF rest = <<>> THEN <<SubSeq(t, 1, i - 1)>>
        ELSE <<SubSeq(t, 1, i - 1), rest>>

\* headerRE of email.feedparser on a line that does not start with "From ":
\* a continuation line, or a name of printable characters other than the
\* colon and the space, then a colon.
IsHeaderLine(line) ==
    /\ line # <<>>
    /\ \/ line[1] \in {" ", "\t"}
       \/ LET i == FindFirst(line, {":"}, 1)
          IN  i <= Len(line) /\ \A j \in 1..(i - 1) : line[j] \notin Whitespace \cup {"\\0"}

\* FeedParser._parsegen: the lines up to the first that is no header line.
RECURSIVE HeaderLines(_, _)
HeaderLines(lines, i) ==
    IF i > Len(lines) \/ ~IsHeaderLine(lines[i]) THEN <<>>
    ELSE <<i>> \o HeaderLines(lines, i + 1)

\* Line i of the text "\r\n".join(lines), with its line end.
JoinedLine(lines, i) == IF i < Len(lines) THEN lines[i] \o <<"\r", "\n">> ELSE lines[i]

\* Compat32.header_source_parse of the source lines of one header.
header_source_parse(sourcelines) ==
    LET first == sourcelines[1]
        i     == FindFirst(first, {":"}, 1)
        rest  == [k \in 1..(Len(sourcelines) - 1) |-> sourcelines[k + 1]]
        RECURSIVE Join(_)
        Join(ls) == IF ls = <<>> THEN <<>> ELSE Head(ls) \o Join(Tail(ls))
    IN  [name  |-> SubSeq(first, 1, i - 1),
         value |-> rstrip(lstrip(SubSeq(first, i + 1, Len(first)), {" ", "\t"}) \o Join(rest),
                          {"\r", "\n"})]

\* dict(message.items()) with one more header: the last value of a name.
SetHeader(headers, h) ==
    [n \in DOMAIN headers \cup {h.name} |-> IF n = h.name THEN h.value ELSE headers[n]]

\* FeedParser._parse_headers over the header lines from the k-th on.
RECURSIVE parse_headers(_, _, _, _, _)
parse_headers(lines, idx, k, lastvalue, headers) ==
    LET flushed == IF lastvalue = <<>> THEN headers
                   ELSE SetHeader(headers, header_source_parse(lastvalue))
    IN  IF k > Len(idx) THEN flushed
        ELSE LET line == JoinedLine(lines, idx[k])
             IN  IF line[1] \in {" ", "\t"}
                 THEN IF lastvalue = <<>>
                      THEN parse_headers(lines, idx, k + 1, <<>>, headers)
                      ELSE parse_headers(lines, idx, k + 1, Append(lastvalue, line), headers)
                 ELSE IF line[1] = ":"
                 THEN parse_headers(lines, idx, k + 1, <<>>, flushed)
                 ELSE parse_headers(lines, idx, k + 1, <<line>>, flushed)

\* parse_http_headers(raw_headers)
parse_http_headers(raw_headers) ==
    IF raw_headers = <<>>
    THEN [ok |-> TRUE, exc |-> "", version |-> <<>>, status |-> <<>>, headers |-> <<>>]
    ELSE LET split  == splitlines(raw_headers)
             first  == split_once(strip(split[1]))
             remains == Tail(split)
         IN  IF Len(first) # 2
             THEN [ok |-> FALSE, exc |-> "ValueError", version |-> <<>>, status |-> <<>>,
                   headers |-> <<>>]
             ELSE [ok |-> TRUE, exc |-> "", version |-> first[1], status |-> first[2],
                   headers |-> parse_headers(remains, HeaderLines(remains, 1), 1, <<>>, <<>>)]

\* The two element names that _process_headers looks up.
ORIGINAL_RESPONSE_HEADERS ==
    <<"o", "r", "i", "g", "i", "n", "a", "l", "-", "r", "e", "s", "p", "o", "n", "s", "e", "-",
      "h", "e", "a", "d", "e", "r", "s">>
RESPONSE_HEAD == <<"r", "e", "s", "p", "o", "n", "s", "e", "-", "h", "e", "a", "d">>

\* elements.get(name): None when the name is not in the map.
elements_get(elements, name) == IF name \in DOMAIN elements THEN elements[name] ELSE None

\* `a or b` of two values that are None or a text.
Truthy(text) == text # None /\ text # <<>>
Mutant_or(a, b) == IF a # None THEN a ELSE b
py_or(a, b) == IF Truthy(a) THEN a ELSE b

\* CacheFile._process_headers: the header map, or the exception of
\* parse_http_headers.
process_headers(elements) ==
    LET header == py_or(elements_get(elements, ORIGINAL_RESPONSE_HEADERS),
                        elements_get(elements, RESPONSE_HEAD))
    IN  IF Truthy(header)
        THEN LET parsed == parse_http_headers(header)
             IN  [ok |-> parsed.ok, exc |-> parsed.exc, header |-> parsed.headers]
        ELSE [ok |-> TRUE, exc |-> "", header |-> <<>>]

\* reader.seek(0, os.SEEK_SET); data = reader.read_raw(offset)
Mutant_read_data(f, offset) == BinaryReader_read_raw(f, offset, offset)
read_data(f, offset) == BinaryReader_read_raw(f, 0, offset)

\* CacheFile.from_file(path) on the file f; m is what the reading of the
\* metadata gave.
from_file(f) ==
    LET offset == UnsignedBE(SubSeq(f, Len(f) - 3, Len(f)))
        data == read_data(f, offset)
        cache_file(m) ==
            LET h == process_headers(m.metadata.elements)
            IN  IF ~m.ok
                THEN [ok |-> FALSE, exc |-> m.exc, metadata |-> Idle, data |-> <<>>, header |-> <<>>]
                ELSE IF ~data.ok
                THEN [ok |-> FALSE, exc |-> data.exc, metadata |-> Idle, data |-> <<>>, header |-> <<>>]
                ELSE IF ~h.ok
                THEN [ok |-> FALSE, exc |-> h.exc, metadata |-> Idle, data |-> <<>>, header |-> <<>>]
                ELSE [ok |-> TRUE, exc |-> "", metadata |-> m.metadata, data |-> data.data,
                      header |-> h.header]
    IN  CHOOSE r \in {cache_file(m) : m \in {read_metadata(f)}} : TRUE

\* Cache entry files: the cached data, the metadata header with its version,
\* key size and key, the elements blob and the offset trailer.
MaxDataLen == 2
MaxBlobLen == 5
FarOffset == 300
DataBytes == {7}
BlobBytes == {0, 65, 97}
EntryHeads ==
    {[version |-> 3, key_size |-> 2, key_field |-> <<58, 97, 0>>],
     [version |-> 3, key_size |-> 1, key_field |-> <<58, 0>>],
     [version |-> 2, key_size |-> 2, key_field |-> <<58, 97, 0>>],
     [version |-> 4, key_size |-> 1, key_field |-> <<58, 0>>],
     [version |-> 3, key_size |-> 2, key_field |-> <<58, 97, 97>>],
     [version |-> 3, key_size |-> 1, key_field |-> <<58, 97, 0>>],
     [version |-> 3, key_size |-> 1, key_field |-> <<97, 0>>],
     [version |-> 3, key_size |-> 2, key_field |-> <<58, 255, 0>>]}
U32BE(n) == <<0, 0, n \div 256, n % 256>>
EntryFile(data, version, key_size, key_field, blob, offset) ==
    data \o <<1, 2, 3, 4>> \o [i \in 1..(2 * CeilDiv(Len(data), CHUNK_SIZE)) |-> 5]
         \o U32BE(version) \o U32BE(1) \o U32BE(2) \o U32BE(3) \o <<63, 128, 0, 0>> \o U32BE(4)
         \o U32BE(key_size) \o U32BE(0) \o key_field \o blob \o U32BE(offset)

\* cache during the work on one entry file: the file, and what the call
\* made on it gave.
OpenFile(f) ==
    [pc |-> "file", file |-> f, status |-> "new", exc |-> "", metadata |-> Idle,
     data |-> <<>>, header |-> <<>>]

InitCacheFile ==
    /\ \E data \in SeqsUpTo(DataBytes, MaxDataLen), head \in EntryHeads,
          blob \in SeqsUpTo(BlobBytes, MaxBlobLen) :
            \E offset \in {0, Len(data), Len(data) + 1, FarOffset} :
                cache = OpenFile(EntryFile(data, head.version, head.key_size, head.key_field,
                                           blob, offset))
    /\ ck = Idle /\ pf = Idle /\ idb = Idle /\ sc = Idle

\* metadata = CacheFile.read_metadata(path)
ReadMetadata ==
    /\ cache.pc = "file"
    /\ LET r == read_metadata(cache.file)
       IN  cache' = [cache EXCEPT !.pc = "read_metadata",
                                  !.status = IF r.ok THEN "returned" ELSE "raised",
                                  !.exc = r.exc, !.metadata = r.metadata]
    /\ UNCHANGED <<ck, pf, idb, sc>>

\* cache_file = CacheFile.from_file(path)
FromFile ==
    /\ cache.pc = "file"
    /\ LET r == from_file(cache.file)
       IN  cache' = [cache EXCEPT !.pc = "from_file",
                                  !.status = IF r.ok THEN "returned" ELSE "raised",
                                  !.exc = r.exc, !.metadata = r.metadata,
                                  !.data = r.data, !.header = r.header]
    /\ UNCHANGED <<ck, pf, idb, sc>>

NextCacheFile == ReadMetadata \/ FromFile

SpecCacheFile == InitCacheFile /\ [][NextCacheFile]_vars

(***************************************************************************)
(* Claims about the metadata of a cache entry file                         *)
(***************************************************************************)

FileDone     == cache.pc \in {"read_metadata", "from_file"}
FileReturned == FileDone /\ cache.status = "returned"
FileRaised   == FileDone /\ cache.status = "raised"

\* The layout of the file as its trailer gives it: the metadata starts at
\* the offset of the trailer, the key after the fixed fields, the elements
\* blob after the key and its terminator, up to the trailer.
Trailer      == SubSeq(cache.file, Len(cache.file) - 3, Len(cache.file))
MetaStart    == UnsignedBE(Trailer)
KeyStart     == MetaStart + 36 + 2 * CeilDiv(MetaStart, CHUNK_SIZE)
FieldAt(at)  == SubSeq(cache.file, at + 1, at + 4)
HasKeySize   == KeyStart <= Len(cache.file)
VersionField == UnsignedBE(FieldAt(KeyStart - 32))
KeySizeField == UnsignedBE(FieldAt(KeyStart - 8))
BlobStart    == KeyStart + KeySizeField + 1
HasBlob      == HasKeySize /\ BlobStart + 4 <= Len(cache.file)
KeyBytes     == SubSeq(cache.file, KeyStart + 1, KeyStart + KeySizeField)
Blob         == SubSeq(cache.file, BlobStart + 1, Len(cache.file) - 4)

\* Everything before the elements blob is as from_reader wants it.
HeadOk ==
    /\ HasBlob /\ VersionField = 3 /\ cache.file[BlobStart] = 0
    /\ \A i \in DOMAIN KeyBytes : KeyBytes[i] < 128
    /\ CacheKey([i \in 1..Len(KeyBytes) |-> Chr(KeyBytes[i])]).status = "ok"

\* blob is k pairs name NUL value NUL: it holds 2k NUL bytes and the last
\* of them is its last byte.
NulCount(blob) == Cardinality({i \in DOMAIN blob : blob[i] = 0})
IsPairs(blob)  == NulCount(blob) % 2 = 0 /\ (blob # <<>> => Last(blob) = 0)
PairCount(blob) == NulCount(blob) \div 2

\* The n-th NUL byte of blob and the n-th field that the NUL bytes end.
NulAt(blob, n) ==
    IF n = 0 THEN 0
    ELSE CHOOSE i \in DOMAIN blob :
             blob[i] = 0 /\ Cardinality({m \in 1..i : blob[m] = 0}) = n
BlobField(blob, n) ==
    LET raw == SubSeq(blob, NulAt(blob, n - 1) + 1, NulAt(blob, n) - 1)
    IN  [i \in 1..Len(raw) |-> Chr(raw[i])]

\* The map of the pairs of blob: each lower-cased name with the value of the
\* last pair that has it.
PairsMap(blob) ==
    LET names == {Lower(BlobField(blob, 2 * j - 1)) : j \in 1..PairCount(blob)}
    IN  [n \in names |->
            LET j == CHOOSE j \in 1..PairCount(blob) :
                         /\ Lower(BlobField(blob, 2 * j - 1)) = n
                         /\ \A m \in (j + 1)..PairCount(blob) :
                                Lower(BlobField(blob, 2 * m - 1)) # n
            IN  BlobField(blob, 2 * j)]

\* The blob is k pairs followed by one more NUL byte.
IsPairsAndNul(blob) ==
    blob # <<>> /\ Last(blob) = 0 /\ IsPairs(SubSeq(blob, 1, Len(blob) - 1))

\* C12 as stated: an elements blob of k >= 0 pairs name NUL value NUL and
\* one more terminating NUL byte decodes into the map of those k pairs.
C12_PairsAndTerminatorDecode ==
    (FileDone /\ HeadOk /\ IsPairsAndNul(Blob)) =>
        /\ cache.status = "returned"
        /\ cache.metadata.elements = PairsMap(SubSeq(Blob, 1, Len(Blob) - 1))

\* C12, amended: an elements blob of k >= 1 pairs name NUL value NUL with no
\* byte after the NUL of the last value decodes into the map of those pairs,
\* names lower-cased, the last pair of a name giving its value; the same
\* pairs followed by one more NUL byte fail with ValueError, as does the
\* empty blob.
C12_PairsDecode ==
    /\ (FileDone /\ HeadOk /\ IsPairs(Blob) /\ PairCount(Blob) >= 1) =>
            /\ cache.status = "returned"
            /\ cache.metadata.elements = PairsMap(Blob)
    /\ (FileDone /\ HeadOk /\ (IsPairsAndNul(Blob) \/ Blob = <<>>)) =>
            /\ cache.status = "raised" /\ cache.exc = "ValueError"

\* Two pairs with different names were decoded.
C12_Witness ==
    /\ FileReturned /\ HeadOk /\ IsPairs(Blob) /\ PairCount(Blob) = 2
    /\ Cardinality(DOMAIN cache.metadata.elements) = 2
    /\ <<"a">> \in DOMAIN cache.metadata.elements

(***************************************************************************)
(* A CacheFile and its header map                                          *)
(***************************************************************************)

\* Response heads: a status line and up to MaxHeaderLines header lines, the
\* empty text, and a status line of one word.
MaxHeaderLines == 2
StatusLine == <<"H", " ", "2">>
HeaderLineTexts ==
    {<<"x", "-", "a", ":", " ", "1">>, <<"X", "-", "B", ":", " ", "2">>,
     <<"X", "-", "b", ":", "1">>}
RECURSIVE HeadText(_)
HeadText(lines) ==
    IF lines = <<>> THEN StatusLine
    ELSE HeadText(SubSeq(lines, 1, Len(lines) - 1)) \o <<"\r", "\n">> \o Last(lines)
HeadTexts == {<<>>, <<"H">>} \cup {HeadText(ls) : ls \in SeqsUpTo(HeaderLineTexts, MaxHeaderLines)}

\* The names a caller asks for.
AttributeNames ==
    {<<"x", "-", "a">>, <<"X", "-", "A">>, <<"x", "-", "b">>, <<"X", "-", "B">>,
     <<"X", "-", "b">>}

\* cache while a CacheFile is made from the elements of its metadata and
\* then asked for header attributes.
InitCacheHeaders ==
    /\ \E names \in SUBSET {ORIGINAL_RESPONSE_HEADERS, RESPONSE_HEAD} :
          \E elements \in [names -> HeadTexts] :
              cache = [pc |-> "metadata", elements |-> elements, status |-> "new", exc |-> "",
                       header |-> <<>>, asked |-> None, answer |-> None]
    /\ ck = Idle /\ pf = Idle /\ idb = Idle /\ sc = Idle

\* CacheFile.__init__(path, metadata, cached_resource_data)
NewCacheFile ==
    /\ cache.pc = "metadata"
    /\ LET h == process_headers(cache.elements)
       IN  cache' = [cache EXCEPT !.pc = IF h.ok THEN "cache_file" ELSE "failed",
                                  !.status = IF h.ok THEN "returned" ELSE "raised",
                                  !.exc = h.exc, !.header = h.header]
    /\ UNCHANGED <<ck, pf, idb, sc>>

\* cache_file.has_header_attribute(attribute)
HasHeaderAttribute ==
    /\ cache.pc \in {"cache_file", "has", "get"}
    /\ \E attribute \in AttributeNames :
          cache' = [cache EXCEPT !.pc = "has", !.asked = attribute,
                                 !.answer = has_header_attribute(cache.header, attribute)]
    /\ UNCHANGED <<ck, pf, idb, sc>>

\* cache_file.get_header_attribute(attribute): header.get gives None for a
\* name that is not a key.
GetHeaderAttribute ==
    /\ cache.pc \in {"cache_file", "has", "get"}
    /\ \E attribute \in AttributeNames :
          cache' = [cache EXCEPT !.pc = "get", !.asked = attribute,
                                 !.answer = IF has_header_attribute(cache.header, attribute)
                                            THEN get_header_attribute(cache.header, attribute)
                                            ELSE None]
    /\ UNCHANGED <<ck, pf, idb, sc>>

NextCacheHeaders == NewCacheFile \/ HasHeaderAttribute \/ GetHeaderAttribute

SpecCacheHeaders == InitCacheHeaders /\ [][NextCacheHeaders]_vars

\* The element that the header map comes from: original-response-headers
\* when the map has it, response-head when it has that one only.
HeaderSource ==
    IF ORIGINAL_RESPONSE_HEADERS \in DOMAIN cache.elements
    THEN cache.elements[ORIGINAL_RESPONSE_HEADERS]
    ELSE IF RESPONSE_HEAD \in DOMAIN cache.elements THEN cache.elements[RESPONSE_HEAD]
    ELSE None

\* C13: the header map is parsed from original-response-headers whenever
\* the elements have it, whatever its value; from response-head only when
\* they do not; and is the empty map of no source only when they have
\* neither.
C13_OriginalResponseHeadersFirst ==
    cache.pc \in {"cache_file", "failed"} =>
        IF HeaderSource = None
        THEN cache.status = "returned" /\ cache.header = <<>>
        ELSE LET parsed == parse_http_headers(HeaderSource)
             IN  IF parsed.ok
                 THEN cache.status = "returned" /\ cache.header = parsed.headers
                 ELSE cache.status = "raised"

\* C14: a header stored under a name N is found under every spelling M of
\* N that differs in case only: has_header_attribute(M) is true and
\* get_header_attribute(M) is a value stored under such a name.
C14_NamesAreCaseInsensitive ==
    \A n \in DOMAIN cache.header :
        Lower(n) = Lower(cache.asked) =>
            /\ cache.pc = "has" => cache.answer = TRUE
            /\ cache.pc = "get" =>
                   \E m \in DOMAIN cache.header :
                       Lower(m) = Lower(cache.asked) /\ cache.answer = cache.header[m]

(***************************************************************************)
(* MozillaCache.iter_metadata                                              *)
(***************************************************************************)

\* The raw keys of the entry files of a cache folder, in the order iterdir
\* gives the files, and the url a caller passes (None when it passes none).
EntryKeys == {<<":", "u">>, <<":", "i">>, <<"a", ",", ":", "u">>}
SearchUrls == {None, <<"u">>, <<"i">>}

\* _precached_metadata: None, or the metadata in the order of their keys.
NotPrecached == [is_none |-> TRUE, items |-> <<>>]
Precached(items) == [is_none |-> FALSE, items |-> items]

InitIterMetadata ==
    /\ \E files \in SeqsUpTo(EntryKeys, MaxFiles), url \in SearchUrls :
          cache = [pc |-> "new", files |-> files, url |-> url, precached_metadata |-> NotPrecached,
                   url_key_lookup |-> <<>>, next |-> 1, yielded |-> <<>>,
                   status |-> "new", exc |-> ""]
    /\ ck = Idle /\ pf = Idle /\ idb = Idle /\ sc = Idle

\* MozillaCache._precache_metadata over the files from the i-th on: the
\* metadata of each file under its key, ValueError from read_metadata on a
\* file whose key does not parse, KeyError on a key met before.
RECURSIVE precache_metadata(_, _, _)
precache_metadata(files, i, precached) ==
    IF i > Len(files) THEN [ok |-> TRUE, exc |-> "", precached |-> precached]
    ELSE LET metadata == [key |-> CacheKey(files[i])]
         IN  IF metadata.key.status # "ok"
             THEN [ok |-> FALSE, exc |-> "ValueError", precached |-> precached]
             ELSE IF \E j \in DOMAIN precached : precached[j].key.raw_key = metadata.key.raw_key
             THEN [ok |-> FALSE, exc |-> "KeyError", precached |-> precached]
             ELSE precache_metadata(files, i + 1, Append(precached, metadata))

\* MozillaCache._make_url_key_lookup: the keys of each url.
make_url_key_lookup(precached) ==
    [u \in {precached[j].key.url : j \in DOMAIN precached} |->
        {precached[j].key.raw_key : j \in {m \in DOMAIN precached : precached[m].key.url = u}}]

\* iter_metadata(url=...) up to its loop: _precache_metadata, which raises
\* ValueError when the metadata is already there, and _make_url_key_lookup.
IterMetadataCall ==
    /\ cache.pc \in {"new", "exhausted"}
    /\ IF ~cache.precached_metadata.is_none
       THEN cache' = [cache EXCEPT !.pc = "failed", !.status = "raised", !.exc = "ValueError"]
       ELSE LET r == precache_metadata(cache.files, 1, <<>>)
            IN  IF r.ok
                THEN cache' = [cache EXCEPT !.pc = "iter_metadata", !.status = "running",
                                            !.precached_metadata = Precached(r.precached),
                                            !.url_key_lookup = make_url_key_lookup(r.precached)]
                ELSE cache' = [cache EXCEPT !.pc = "failed", !.status = "raised",
                                            !.exc = r.exc, !.precached_metadata = Precached(r.precached)]
    /\ UNCHANGED <<ck, pf, idb, sc>>

\* One turn of the loop of iter_metadata: the next metadata is yielded.
IterMetadataYield ==
    /\ cache.pc = "iter_metadata" /\ cache.next <= Len(cache.precached_metadata.items)
    /\ cache' = [cache EXCEPT !.next = @ + 1,
                              !.yielded = Append(@, cache.precached_metadata.items[cache.next])]
    /\ UNCHANGED <<ck, pf, idb, sc>>

\* The loop of iter_metadata ends.
IterMetadataReturn ==
    /\ cache.pc = "iter_metadata" /\ cache.next > Len(cache.precached_metadata.items)
    /\ cache' = [cache EXCEPT !.pc = "exhausted", !.status = "returned"]
    /\ UNCHANGED <<ck, pf, idb, sc>>

NextIterMetadata == IterMetadataCall \/ IterMetadataYield \/ IterMetadataReturn

SpecIterMetadata == InitIterMetadata /\ [][NextIterMetadata]_vars

\* The places in the folder of the entries whose url matches the search.
MatchingEntries ==
    {i \in DOMAIN cache.files :
        cache.url = None \/ is_keysearch_hit([kind |-> "str", s |-> cache.url],
                                             CacheKey(cache.files[i]).url)}

\* C15: iter_metadata(url=u) gives the metadata of the entries whose url
\* matches u and of no other entry; without a url it gives every entry.
C15_IterMetadataFiltersByUrl ==
    (cache.pc = "exhausted") =>
        /\ \A i \in MatchingEntries :
               \E n \in DOMAIN cache.yielded : cache.yielded[n].key.raw_key = cache.files[i]
        /\ \A n \in DOMAIN cache.yielded :
               \E i \in MatchingEntries : cache.yielded[n].key.raw_key = cache.files[i]

(***************************************************************************)
(* CacheResult  (src/ccl_mozilla_reader/ccl_moz_profile_folder.py)         *)
(*                                                                         *)
(* The cached data is the record of the encoding that produced the bytes   *)
(* and of the body that was encoded; each decompressor gives the body of   *)
(* data of its own encoding and raises on any other data.                  *)
(***************************************************************************)

CONTENT_ENCODING ==
    <<"c", "o", "n", "t", "e", "n", "t", "-", "e", "n", "c", "o", "d", "i", "n", "g">>
GZIP     == <<"g", "z", "i", "p">>
BR       == <<"b", "r">>
DEFLATE  == <<"d", "e", "f", "l", "a", "t", "e">>
IDENTITY == <<"i", "d", "e", "n", "t", "i", "t", "y">>

\* The header names and values of the entries, and their data.
EncodingNames  == {CONTENT_ENCODING, <<"C">> \o Tail(CONTENT_ENCODING)}
EncodingValues == {GZIP, <<" ">> \o GZIP, BR, DEFLATE, IDENTITY}
Encodings      == {"gzip", "br", "deflate", "none"}
Bodies         == {<<1>>, <<1, 2>>}
MaxReads       == 2

\* A field that holds None or a value.
Nothing == [is_none |-> TRUE]
Some(value) == [is_none |-> FALSE, value |-> value]

\* gzip.decompress, brotli.decompress, zlib.decompress(data, -MAX_WBITS)
decompress(encoding, data) ==
    IF data.encoding = encoding
    THEN [ok |-> TRUE, exc |-> "", data |-> [encoding |-> "none", body |-> data.body]]
    ELSE [ok |-> FALSE, exc |-> "DecompressError", data |-> data]

\* CacheResult.__init__(cache_file, decompress_data=...)
CacheResult_init(header, data, decompress_data) ==
    [pc |-> "cache_result", header |-> header, data |-> data,
     decompress_data |-> decompress_data,
     data_processed |-> IF decompress_data THEN Nothing ELSE Some(data),
     was_compressed |-> IF decompress_data THEN Nothing ELSE Some(FALSE),
     reads |-> 0, status |-> "new", exc |-> "", answer |-> Nothing]

InitCacheResult ==
    /\ \E names \in {{}} \cup {{n} : n \in EncodingNames}, decompress_data \in BOOLEAN,
          encoding \in Encodings, body \in Bodies :
            \E header \in [names -> EncodingValues] :
                cache = CacheResult_init(header, [encoding |-> encoding, body |-> body],
                                         decompress_data)
    /\ ck = Idle /\ pf = Idle /\ idb = Idle /\ sc = Idle

\* CacheResult._set_data with _data_processed None: the processed data and
\* whether it was compressed, or the exception raised.
set_data(r) ==
    LET content_encoding ==
            IF has_header_attribute(r.header, CONTENT_ENCODING)
            THEN get_header_attribute(r.header, CONTENT_ENCODING) ELSE None
        stripped == strip(content_encoding)
        d == decompress(CASE stripped = GZIP -> "gzip" [] stripped = BR -> "br"
                          [] OTHER -> "deflate", r.data)
    IN  IF content_encoding = None
        THEN [ok |-> FALSE, exc |-> "AttributeError", data |-> Nothing, was |-> Nothing]
        ELSE IF stripped \in {GZIP, BR, DEFLATE}
        THEN IF d.ok THEN [ok |-> TRUE, exc |-> "", data |-> Some(d.data), was |-> Some(TRUE)]
             ELSE [ok |-> FALSE, exc |-> d.exc, data |-> Nothing, was |-> Nothing]
        ELSE [ok |-> TRUE, exc |-> "", data |-> Some(r.data), was |-> Some(FALSE)]

\* cache_result.data
ReadData ==
    /\ cache.pc = "cache_result" /\ cache.reads < MaxReads
    /\ IF ~cache.data_processed.is_none
       THEN cache' = [cache EXCEPT !.reads = @ + 1, !.status = "returned", !.exc = "",
                                   !.answer = cache.data_processed]
       ELSE LET s == set_data(cache)
            IN  cache' = [cache EXCEPT !.reads = @ + 1,
                                       !.status = IF s.ok THEN "returned" ELSE "raised",
                                       !.exc = s.exc, !.data_processed = s.data,
                                       !.was_compressed = s.was,
                                       !.answer = IF s.ok THEN s.data ELSE Nothing]
    /\ UNCHANGED <<ck, pf, idb, sc>>

NextCacheResult == ReadData

SpecCacheResult == InitCacheResult /\ [][NextCacheResult]_vars

\* The content-encoding of the entry as its header gives it under the name
\* that the lookup uses; None without such a header.
StoredEncoding ==
    IF CONTENT_ENCODING \in DOMAIN cache.header THEN strip(cache.header[CONTENT_ENCODING]) ELSE None

\* C16: with decompression the data is the decoded body for the encodings
\* gzip, br and deflate and the raw bytes for any other encoding and for an
\* entry without a content-encoding header; without decompression it is the
\* raw bytes; every read gives the same.
C16_DataIsDecodedOrRaw ==
    (cache.reads >= 1) =>
        IF cache.decompress_data /\ StoredEncoding \in {GZIP, BR, DEFLATE}
        THEN (cache.data.encoding = (CASE StoredEncoding = GZIP -> "gzip"
                                       [] StoredEncoding = BR -> "br" [] OTHER -> "deflate"))
                 => /\ cache.status = "returned"
                    /\ cache.answer = Some([encoding |-> "none", body |-> cache.data.body])
        ELSE cache.status = "returned" /\ cache.answer = Some(cache.data)

(***************************************************************************)
(* The record iterators with raise_on_no_result                            *)
(* (src/ccl_moz_localstorage.py, src/ccl_moz_sessionstorage.py,            *)
(*  src/ccl_mozilla_reader/ccl_moz_profile_folder.py)                      *)
(*                                                                         *)
(* A store is the sequence of its hosts, each with the keys of its rows in *)
(* the order of the rows.  An IndexedDB host has one database, named "d",  *)
(* with one object store for each key of StorageKeys; the records of an    *)
(* object store are the rows of its name.                                  *)
(***************************************************************************)

MaxRows == 2
StorageHosts == {"h1", "h2"}
StorageKeys  == {"k1", "k2"}
Stores ==
    {s \in SeqsUpTo([host : StorageHosts, rows : SeqsUpTo(StorageKeys, MaxRows)], 2) :
        \A i, j \in DOMAIN s : i # j => s[i].host # s[j].host}

\* A KeySearch argument: None or a string.
NoSearch == [kind |-> "none"]
StrSearch(s) == [kind |-> "str", s |-> s]
HostSearches == {NoSearch, StrSearch("h1"), StrSearch("h3")}
KeySearches  == {NoSearch, StrSearch("k1")}
DatabaseSearches == {NoSearch, StrSearch("x")}

\* `search is None or is_keysearch_hit(search, value)`
IsHit(search, value) == search.kind = "none" \/ is_keysearch_hit(search, value)

\* `not yielded and raise_on_no_result`
Mutant_no_result(yielded, raise_on_no_result) == ~yielded
no_result(yielded, raise_on_no_result) == ~yielded /\ raise_on_no_result

\* What a generator does when it is run to its end: the records it yields
\* and the exception it then raises, if any.
Run(records, exc, arg) == [records |-> records, exc |-> exc, arg |-> arg]

\* The hosts of a store in its order, and the hosts among them that a
\* string search finds.
HostsOf(store) == [i \in DOMAIN store |-> store[i].host]
HostRows(store, host) == store[CHOOSE i \in DOMAIN store : store[i].host = host].rows
SearchHost(store, search) ==
    IF \E i \in DOMAIN store : store[i].host = search.s THEN <<search.s>> ELSE <<>>

\* The records of the rows of a host whose key is a hit, in row order.
RECURSIVE RowRecords(_, _, _, _)
RowRecords(host, rows, i, search) ==
    IF i > Len(rows) THEN <<>>
    ELSE (IF IsHit(search, rows[i]) THEN <<[host |-> host, key |-> rows[i], rowid |-> i]>>
          ELSE <<>>) \o RowRecords(host, rows, i + 1, search)

\* LocalStoreDb._prepare_hosts_for_iteration: the hosts, and whether the
\* generator raises KeyError(storage_key) at its end.
prepare_hosts_for_iteration(store, storage_key, raise_on_no_result) ==
    LET hits == IF storage_key.kind = "none" THEN HostsOf(store)
                ELSE SearchHost(store, storage_key)
        yielded == storage_key.kind = "none" \/ hits # <<>>
    IN  [hosts |-> hits, raises |-> no_result(yielded, raise_on_no_result)]

\* LocalStoreDb.iter_records
RECURSIVE LocalRecords(_, _, _, _)
LocalRecords(store, hosts, i, script_key) ==
    IF i > Len(hosts) THEN <<>>
    ELSE RowRecords(hosts[i], HostRows(store, hosts[i]), 1, script_key)
             \o LocalRecords(store, hosts, i + 1, script_key)
LocalStoreDb_iter_records(store, storage_key, script_key, raise_on_no_result) ==
    LET hosts == prepare_hosts_for_iteration(store, storage_key, raise_on_no_result)
        records == LocalRecords(store, hosts.hosts, 1, script_key)
    IN  IF hosts.raises THEN Run(records, "KeyError", <<storage_key>>)
        ELSE IF no_result(records # <<>>, raise_on_no_result)
        THEN Run(records, "KeyError", <<storage_key, script_key>>)
        ELSE Run(records, "", <<>>)

\* SessionStorage.iter_records: _host_lookup[host][key] is the list of the
\* records of a key, the keys in the order of their first rows.
KeyRecords(host, rows, key) == RowRecords(host, rows, 1, StrSearch(key))
RECURSIVE SessionHostRecords(_, _, _, _)
SessionHostRecords(host, rows, i, key) ==
    IF i > Len(rows) THEN <<>>
    ELSE (IF (\A j \in 1..(i - 1) : rows[j] # rows[i]) /\ IsHit(key, rows[i])
          THEN KeyRecords(host, rows, rows[i]) ELSE <<>>)
             \o SessionHostRecords(host, rows, i + 1, key)
RECURSIVE SessionRecords(_, _, _, _)
SessionRecords(store, hosts, i, key) ==
    IF i > Len(hosts) THEN <<>>
    ELSE SessionHostRecords(hosts[i], HostRows(store, hosts[i]), 1, key)
             \o SessionRecords(store, hosts, i + 1, key)
SessionStorage_iter_records(store, host, key, raise_on_no_results) ==
    LET host_hits == IF host.kind = "none" THEN HostsOf(store) ELSE SearchHost(store, host)
        records == SessionRecords(store, host_hits, 1, key)
    IN  IF host.kind # "none" /\ no_result(host_hits # <<>>, raise_on_no_results)
        THEN Run(<<>>, "KeyError", <<host, key>>)
        ELSE IF no_result(records # <<>>, raise_on_no_results)
        THEN Run(records, "KeyError", <<host, key>>)
        ELSE Run(records, "", <<>>)

\* MozillaProfileFolder.iter_indexeddb_records
RECURSIVE FilterHosts(_, _, _)
FilterHosts(hosts, i, search) ==
    IF i > Len(hosts) THEN <<>>
    ELSE (IF IsHit(search, hosts[i]) THEN <<hosts[i]>> ELSE <<>>)
             \o FilterHosts(hosts, i + 1, search)
ObjectStoreNames == <<"k1", "k2">>
RECURSIVE StoreRecords(_, _, _, _)
StoreRecords(host, rows, i, object_store_name) ==
    IF i > Len(ObjectStoreNames) THEN <<>>
    ELSE (IF IsHit(object_store_name, ObjectStoreNames[i])
          THEN KeyRecords(host, rows, ObjectStoreNames[i]) ELSE <<>>)
             \o StoreRecords(host, rows, i + 1, object_store_name)
RECURSIVE IndexedDbRecords(_, _, _, _, _)
IndexedDbRecords(store, hosts, i, database_name, object_store_name) ==
    IF i > Len(hosts) THEN <<>>
    ELSE (IF IsHit(database_name, "d")
          THEN StoreRecords(hosts[i], HostRows(store, hosts[i]), 1, object_store_name)
          ELSE <<>>)
             \o IndexedDbRecords(store, hosts, i + 1, database_name, object_store_name)
iter_indexeddb_records(store, host_id, database_name, object_store_name, raise_on_no_result) ==
    LET matched_hosts == FilterHosts(HostsOf(store), 1, host_id)
        records == IndexedDbRecords(store, matched_hosts, 1, database_name, object_store_name)
    IN  IF no_result(records # <<>>, raise_on_no_result)
        THEN Run(records, "KeyError", <<host_id, database_name, object_store_name>>)
        ELSE Run(records, "", <<>>)

\* pf while one of the iterators is consumed: the store, the arguments of
\* the call, the run of the generator, and what it has yielded so far.
InitIterRecords ==
    /\ \E store \in Stores, host \in HostSearches, key \in KeySearches,
          database \in DatabaseSearches, raise \in BOOLEAN :
            pf = [pc |-> "ready", store |-> store, host |-> host, key |-> key,
                  database |-> database, raise_on_no_result |-> raise, iterator |-> "",
                  run |-> Run(<<>>, "", <<>>), yielded |-> <<>>, status |-> "new",
                  exc |-> "", arg |-> <<>>]
    /\ ck = Idle /\ cache = Idle /\ idb = Idle /\ sc = Idle

Started(iterator, run) ==
    pf' = [pf EXCEPT !.pc = "iterating", !.iterator = iterator, !.run = run,
                     !.status = "running"]

\* for rec in local_store.iter_records(storage_key, script_key, raise_on_no_result=...)
IterLocalStoreRecords ==
    /\ pf.pc = "ready" /\ pf.database = NoSearch
    /\ Started("LocalStoreDb.iter_records",
               LocalStoreDb_iter_records(pf.store, pf.host, pf.key, pf.raise_on_no_result))
    /\ UNCHANGED <<ck, cache, idb, sc>>

\* for rec in session_storage.iter_records(host, key, raise_on_no_results=...)
IterSessionStorageRecords ==
    /\ pf.pc = "ready" /\ pf.database = NoSearch
    /\ Started("SessionStorage.iter_records",
               SessionStorage_iter_records(pf.store, pf.host, pf.key, pf.raise_on_no_result))
    /\ UNCHANGED <<ck, cache, idb, sc>>

\* for rec in profile.iter_indexeddb_records(host_id, database_name, object_store_name, ...)
IterIndexedDbRecordsWith ==
    /\ pf.pc = "ready"
    /\ Started("MozillaProfileFolder.iter_indexeddb_records",
               iter_indexeddb_records(pf.store, pf.host, pf.database, pf.key,
                                      pf.raise_on_no_result))
    /\ UNCHANGED <<ck, cache, idb, sc>>

\* The iterator yields its next record.
YieldRecord ==
    /\ pf.pc = "iterating" /\ Len(pf.yielded) < Len(pf.run.records)
    /\ pf' = [pf EXCEPT !.yielded = Append(@, pf.run.records[Len(pf.yielded) + 1])]
    /\ UNCHANGED <<ck, cache, idb, sc>>

\* The iterator ends: it returns, or raises what its run ends with.
EndOfRecords ==
    /\ pf.pc = "iterating" /\ Len(pf.yielded) = Len(pf.run.records)
    /\ pf' = [pf EXCEPT !.pc = "finished",
                        !.status = IF pf.run.exc = "" THEN "returned" ELSE "raised",
                        !.exc = pf.run.exc, !.arg = pf.run.arg]
    /\ UNCHANGED <<ck, cache, idb, sc>>

NextIterRecords ==
    \/ IterLocalStoreRecords \/ IterSessionStorageRecords \/ IterIndexedDbRecordsWith
    \/ YieldRecord \/ EndOfRecords

SpecIterRecords == InitIterRecords /\ [][NextIterRecords]_vars

\* The search of the call: the arguments in the order of the signature.
SearchPredicate ==
    IF pf.iterator = "MozillaProfileFolder.iter_indexeddb_records"
    THEN <<pf.host, pf.database, pf.key>> ELSE <<pf.host, pf.key>>

\* C17: with raise_on_no_result an iterator that yielded no record raises
\* KeyError with the search (LocalStoreDb with the storage key alone when no
\* host matched it); without it the iterator ends normally; and an iterator
\* that yielded a record never raises KeyError.
C17_KeyErrorOnlyWithoutResult ==
    (pf.pc = "finished") =>
        /\ (pf.raise_on_no_result /\ pf.yielded = <<>>) =>
               /\ pf.status = "raised" /\ pf.exc = "KeyError"
               /\ \/ pf.arg = SearchPredicate
                  \/ /\ pf.iterator = "LocalStoreDb.iter_records"
                     /\ pf.arg = <<pf.host>>
                     /\ \A i \in DOMAIN pf.store : ~IsHit(pf.host, pf.store[i].host)
        /\ ~pf.raise_on_no_result => pf.status = "returned"
        /\ pf.yielded # <<>> => pf.status = "returned"

\* An iterator whose hosts matched and whose keys did not has raised KeyError.
C17_Witness ==
    /\ pf.pc = "finished" /\ pf.raise_on_no_result /\ pf.yielded = <<>>
    /\ pf.exc = "KeyError" /\ pf.arg = SearchPredicate
    /\ \E i \in DOMAIN pf.store : IsHit(pf.host, pf.store[i].host) /\ pf.store[i].rows # <<>>

\* C17 as stated: the KeyError of an iteration without a record always
\* carries the whole search; without raise_on_no_result the iteration ends
\* normally; after a record no KeyError is raised.
C17_KeyErrorCarriesPredicate ==
    (pf.pc = "finished") =>
        /\ (pf.raise_on_no_result /\ pf.yielded = <<>>) =>
               pf.status = "raised" /\ pf.exc = "KeyError" /\ pf.arg = SearchPredicate
        /\ ~pf.raise_on_no_result => pf.status = "returned"
        /\ pf.yielded # <<>> => pf.status = "returned"

\* C18: a CacheFile that from_file returns has as many data bytes as its
\* metadata offset, which is the big-endian number in the last 4 bytes of
\* the file, and the data are the first bytes of the file; a file whose
\* trailer offset is beyond its length makes from_file fail.
C18_DataLengthIsOffset ==
    (cache.pc = "from_file") =>
        /\ cache.status = "returned" =>
               /\ Len(cache.data) = cache.metadata.offset
               /\ cache.metadata.offset = UnsignedBE(Trailer)
               /\ cache.data = SubSeq(cache.file, 1, cache.metadata.offset)
        /\ UnsignedBE(Trailer) > Len(cache.file) => cache.status = "raised"

\* A file with two bytes of data was read.
C18_Witness ==
    /\ cache.pc = "from_file" /\ cache.status = "returned"
    /\ Len(cache.data) = 2 /\ cache.metadata.offset = 2

\* C20: from_reader fails when the version is not 3, when the byte that
\* follows the key_size bytes of the key is not NUL, when the byte before
\* the offset trailer is not NUL, and when the elements without their last
\* NUL split into an odd number of fields.
C20_MalformedMetadataFails ==
    FileDone =>
        /\ (KeyStart - 28 <= Len(cache.file) /\ VersionField # 3) => cache.status = "raised"
        /\ (HasKeySize /\ BlobStart <= Len(cache.file) /\ cache.file[BlobStart] # 0) =>
               cache.status = "raised"
        /\ cache.file[Len(cache.file) - 4] # 0 => cache.status = "raised"
        /\ (HeadOk /\ Blob # <<>> /\ Last(Blob) = 0 /\ NulCount(Blob) % 2 = 1) =>
               cache.status = "raised" /\ cache.exc = "ValueError"

\* A file that is well formed up to its elements, which split into three
\* fields, was refused.
C20_Witness ==
    /\ FileRaised /\ cache.exc = "ValueError"
    /\ HeadOk /\ Blob # <<>> /\ Last(Blob) = 0 /\ NulCount(Blob) = 3

(***************************************************************************)
(* CacheIndexFile  (src/ccl_mozilla_reader/ccl_moz_cache.py)               *)
(***************************************************************************)

\* CacheIndexRecord.SIZE
SIZE == 41

\* Most records of an index file.
MaxIndexRecords == 2

\* BinaryReader.can_read: read count bytes and seek back over them.
Mutant_can_read(f, pos, count) ==
    [result |-> Len(StreamRead(f, pos, count)) # 0, pos |-> pos]
can_read(f, pos, count) ==
    LET tmp == StreamRead(f, pos, count)
        at  == pos + Len(tmp) - Len(tmp)
    IN  [result |-> Len(tmp) = count, pos |-> at]

\* bytes.hex()
HexDigits == <<"0", "1", "2", "3", "4", "5", "6", "7", "8", "9", "a", "b", "c", "d", "e", "f">>
hex(raw) ==
    [i \in 1..(2 * Len(raw)) |->
        IF i % 2 = 1 THEN HexDigits[(raw[(i + 1) \div 2] \div 16) + 1]
        ELSE HexDigits[(raw[i \div 2] % 16) + 1]]

\* struct.unpack(">f", raw): the sign and the other 31 bits of the float.
Single(raw) == [t |-> "float", neg |-> raw[1] >= 128, mag |-> <<raw[1] % 128>> \o Tail(raw)]

\* struct.unpack(">q", raw): a negative number is kept as less than zero.
SignedBE(raw) == IF raw[1] >= 128 THEN 0 - Huge ELSE Unsigned(Reverse(raw))

\* decode_unix_time: EPOCH + timedelta(seconds), kept as the seconds.
decode_unix_time(seconds) == [t |-> "datetime", seconds |-> seconds]

\* CacheEntryContentType(value): ValueError for a value that is no member.
CacheEntryContentTypes == 0..6

IndexError(exc) == [ok |-> FALSE, exc |-> exc, pos |-> 0, value |-> Idle]

\* CacheIndexHeader.from_reader: four reads of 4 bytes, one after the other.
CacheIndexHeader_from_reader(f, pos0) ==
    LET version    == BinaryReader_read_raw(f, pos0, 4)
        last_write == BinaryReader_read_raw(f, pos0 + 4, 4)
        is_dirty   == BinaryReader_read_raw(f, pos0 + 8, 4)
        kb_written == BinaryReader_read_raw(f, pos0 + 12, 4)
    IN  IF ~version.ok \/ ~last_write.ok \/ ~is_dirty.ok \/ ~kb_written.ok
        THEN IndexError("ValueError")
        ELSE [ok |-> TRUE, exc |-> "", pos |-> kb_written.pos,
              value |-> [version |-> UnsignedBE(version.data),
                         last_write_timestamp |-> decode_unix_time(UnsignedBE(last_write.data)),
                         is_dirty |-> UnsignedBE(is_dirty.data),
                         kb_written |-> UnsignedBE(kb_written.data)]]

\* CacheIndexRecord.from_reader: a read that succeeds leaves the stream count
\* bytes on, so each read is written at the place where the one before it
\* ends; the first read that fails raises.
CacheIndexRecord_from_reader(f, pos0) ==
    LET sha1              == BinaryReader_read_raw(f, pos0, 20)
        frecency          == BinaryReader_read_raw(f, pos0 + 20, 4)
        origin_attrs_hash == BinaryReader_read_raw(f, pos0 + 24, 8)
        on_start          == BinaryReader_read_raw(f, pos0 + 32, 2)
        on_stop           == BinaryReader_read_raw(f, pos0 + 34, 2)
        content_type      == BinaryReader_read_raw(f, pos0 + 36, 1)
        flags             == BinaryReader_read_raw(f, pos0 + 37, 4)
    IN  IF ~sha1.ok \/ ~frecency.ok \/ ~origin_attrs_hash.ok \/ ~on_start.ok \/ ~on_stop.ok
           \/ ~content_type.ok
        THEN IndexError("ValueError")
        ELSE IF content_type.data[1] \notin CacheEntryContentTypes THEN IndexError("ValueError")
        ELSE IF ~flags.ok THEN IndexError("ValueError")
        ELSE [ok |-> TRUE, exc |-> "", pos |-> flags.pos,
              value |-> [sha1_hash |-> hex(sha1.data),
                         frecency |-> Single(frecency.data),
                         origin_attrs_hash |-> SignedBE(origin_attrs_hash.data),
                         onStartTime |-> UnsignedBE(<<0, 0>> \o on_start.data),
                         onStopTime |-> UnsignedBE(<<0, 0>> \o on_stop.data),
                         content_type |-> content_type.data[1],
                         flags |-> UnsignedBE(flags.data)]]

\* The index files: a header, records that differ in the first byte of the
\* hash and in the content type, and a run of bytes shorter than a record;
\* and files that end inside the header.
Zeros(n) == [i \in 1..n |-> 0]
HashBytes == {1, 171}
ContentTypeBytes == {0, 6, 7}
TrailingLens == {0, 1, SIZE - 1}
HeaderLens == {0, 15, 16}
IndexHeaderBytes == <<0, 0, 0, 9>> \o <<0, 0, 0, 60>> \o <<0, 0, 0, 1>> \o <<0, 0, 2, 0>>
IndexRecordBytes(hash, content_type) ==
    <<hash>> \o Zeros(19) \o Zeros(4) \o Zeros(8) \o <<0, 3>> \o <<0, 4>> \o <<content_type>>
    \o <<128, 0, 0, 5>>
RECURSIVE IndexRecordsBytes(_)
IndexRecordsBytes(recs) ==
    IF recs = <<>> THEN <<>>
    ELSE IndexRecordBytes(recs[1][1], recs[1][2]) \o IndexRecordsBytes(Tail(recs))
IndexFileBytes(header_len, recs, trailing) ==
    IF header_len < 16 THEN SubSeq(IndexHeaderBytes, 1, header_len)
    ELSE IndexHeaderBytes \o IndexRecordsBytes(recs) \o Zeros(trailing)

InitCacheIndex ==
    /\ \E header_len \in HeaderLens, n \in 0..MaxIndexRecords, trailing \in TrailingLens :
         \E recs \in [1..n -> HashBytes \X ContentTypeBytes] :
            cache = [pc |-> "index", file |-> IndexFileBytes(header_len, recs, trailing),
                     pos |-> 0, header |-> Idle, records |-> <<>>, status |-> "", exc |-> ""]
    /\ ck = Idle /\ pf = Idle /\ idb = Idle /\ sc = Idle

\* CacheIndexFile.from_file up to the loop: the reader is opened and the
\* header is read.
IndexFromFile ==
    /\ cache.pc = "index"
    /\ LET header == CacheIndexHeader_from_reader(cache.file, cache.pos)
       IN  cache' = IF header.ok
                    THEN [cache EXCEPT !.pc = "loop", !.pos = header.pos, !.header = header.value]
                    ELSE [cache EXCEPT !.pc = "done", !.status = "raised", !.exc = header.exc]
    /\ UNCHANGED <<ck, pf, idb, sc>>

\* One turn of the loop that reads a record.
IndexAppendRecord ==
    /\ cache.pc = "loop"
    /\ LET can == can_read(cache.file, cache.pos, SIZE)
           record == CacheIndexRecord_from_reader(cache.file, can.pos)
       IN  /\ can.result
           /\ cache' = IF record.ok
                       THEN [cache EXCEPT !.pos = record.pos,
                                          !.records = Append(cache.records, record.value)]
                       ELSE [cache EXCEPT !.pc = "done", !.status = "raised", !.exc = record.exc]
    /\ UNCHANGED <<ck, pf, idb, sc>>

\* The turn of the loop that breaks: the CacheIndexFile is returned.
IndexBreak ==
    /\ cache.pc = "loop"
    /\ LET can == can_read(cache.file, cache.pos, SIZE)
       IN  /\ ~can.result
           /\ cache' = [cache EXCEPT !.pc = "done", !.pos = can.pos, !.status = "returned"]
    /\ UNCHANGED <<ck, pf, idb, sc>>

NextCacheIndex == IndexFromFile \/ IndexAppendRecord \/ IndexBreak

\* from_file runs on without waiting for anything.
SpecCacheIndex == InitCacheIndex /\ [][NextCacheIndex]_vars /\ WF_vars(NextCacheIndex)

\* The number of whole records after the header, and the bytes of record k.
WholeRecords == (Len(cache.file) - 16) \div SIZE
RecordBytes(k) == SubSeq(cache.file, 16 + SIZE * (k - 1) + 1, 16 + SIZE * k)
ContentTypesValid == \A k \in 1..WholeRecords : RecordBytes(k)[37] \in 0..6

IndexRecordsInFileOrder ==
    (cache.pc = "done" /\ Len(cache.file) >= 16 /\ ContentTypesValid) =>
        /\ cache.status = "returned"
        /\ Len(cache.records) = WholeRecords
        /\ \A k \in 1..WholeRecords :
              /\ cache.records[k].sha1_hash = hex(SubSeq(RecordBytes(k), 1, 20))
              /\ cache.records[k].content_type = RecordBytes(k)[37]

\* C19: from_file on an index file of 16 bytes or more whose records have a
\* content type of 0..6 comes to an end and returns floor((L - 16) / 41)
\* records in the order of the file; fewer than 41 bytes at the end are
\* left out, and a file of 16 bytes has no record.
C19_IndexRecordCount == [](IndexRecordsInFileOrder) /\ <>(cache.pc = "done")

\* Two different records followed by 40 more bytes were returned.
C19_Witness ==
    /\ cache.pc = "done" /\ cache.status = "returned"
    /\ Len(cache.file) = 16 + 2 * SIZE + 40
    /\ Len(cache.records) = 2
    /\ cache.records[1].sha1_hash # cache.records[2].sha1_hash

(***************************************************************************)
(* The lookups of a MozillaCache over several calls                        *)
(* (src/ccl_mozilla_reader/ccl_moz_cache.py)                               *)
(*                                                                         *)
(* An entry file is held as its raw key; the file of a key that CacheKey   *)
(* refuses is a corrupt entry file.  A call is run to the end of its       *)
(* iteration.  builds counts the times _precache_metadata set the lookup   *)
(* to a new dict.                                                          *)
(***************************************************************************)

\* Most entry files in the folder and most calls made on one MozillaCache.
MaxLookupFiles == 2
MaxCalls == 3

LookupKeys == {<<":", "u">>, <<":", "i">>, <<"a", ",", ":", "u">>, <<"b">>}
LookupUrls == {<<"u">>, <<"i">>, <<"x">>}

\* _url_key_lookup: None, or the keys of each url.
NoLookup == [is_none |-> TRUE, keys |-> <<>>]
Lookup(keys) == [is_none |-> FALSE, keys |-> keys]

\* MozillaCache.__init__
InitCacheLookups ==
    /\ \E files \in SeqsUpTo(LookupKeys, MaxLookupFiles) :
          cache = [pc |-> "ready", files |-> files,
                   precached_metadata |-> NotPrecached, url_key_lookup |-> NoLookup,
                   builds |-> 0, calls |-> 0, yielded |-> <<>>, build_failed |-> FALSE,
                   status |-> "new", exc |-> ""]
    /\ ck = Idle /\ pf = Idle /\ idb = Idle /\ sc = Idle

\* _precache_metadata() followed by _make_url_key_lookup() on the object c:
\* the lookup is set to a new dict before the first file is read and keeps
\* what was put into it when a file makes the loop raise.
build_lookups(c) ==
    IF ~c.precached_metadata.is_none
    THEN [c EXCEPT !.status = "raised", !.exc = "ValueError"]
    ELSE CHOOSE n \in {IF r.ok
                       THEN [c EXCEPT !.builds = @ + 1, !.status = "built",
                                      !.precached_metadata = Precached(r.precached),
                                      !.url_key_lookup = Lookup(make_url_key_lookup(r.precached))]
                       ELSE [c EXCEPT !.builds = @ + 1, !.status = "raised", !.exc = r.exc,
                                      !.build_failed = TRUE,
                                      !.precached_metadata = Precached(r.precached)]
                        : r \in {precache_metadata(c.files, 1, <<>>)}} : TRUE

\* The raw keys of the metadata in c whose key is in keys, in dict order.
KeysInOrder(c, keys) ==
    LET items == c.precached_metadata.items
        Hit(m) == m.key.raw_key \in keys
    IN  [i \in 1..Len(SelectSeq(items, Hit)) |-> SelectSeq(items, Hit)[i].key.raw_key]

\* list(cache.iter_metadata())
IterMetadataAll ==
    /\ cache.pc = "ready" /\ cache.calls < MaxCalls
    /\ \E c \in {build_lookups([cache EXCEPT !.calls = @ + 1, !.exc = "", !.yielded = <<>>])} :
          cache' = IF c.status = "raised" THEN c
                   ELSE [c EXCEPT !.status = "returned",
                                  !.yielded = [i \in DOMAIN c.precached_metadata.items |->
                                                  c.precached_metadata.items[i].key.raw_key]]
    /\ UNCHANGED <<ck, pf, idb, sc>>

\* _iter_cache_filtered(search_url) with a str: the lookups are built when
\* _precached_metadata is None; _url_key_lookup.get raises AttributeError
\* when _url_key_lookup is None.
iter_cache_filtered(c0, search_url) ==
    CHOOSE n \in
        {IF c.status = "raised" THEN c
         ELSE IF c.url_key_lookup.is_none
         THEN [c EXCEPT !.status = "raised", !.exc = "AttributeError"]
         ELSE [c EXCEPT !.status = "returned",
                        !.yielded = IF search_url \in DOMAIN c.url_key_lookup.keys
                                    THEN KeysInOrder(c, c.url_key_lookup.keys[search_url])
                                    ELSE <<>>]
           : c \in {IF c0.precached_metadata.is_none THEN build_lookups(c0)
                    ELSE [c0 EXCEPT !.status = "built"]}} : TRUE

\* list(cache.iter_cache(url=search_url))
IterCacheFiltered ==
    /\ cache.pc = "ready" /\ cache.calls < MaxCalls
    /\ \E search_url \in LookupUrls :
          cache' = iter_cache_filtered([cache EXCEPT !.calls = @ + 1, !.exc = "", !.yielded = <<>>],
                                       search_url)
    /\ UNCHANGED <<ck, pf, idb, sc>>

NextCacheLookups == IterMetadataAll \/ IterCacheFiltered

SpecCacheLookups == InitCacheLookups /\ [][NextCacheLookups]_vars

\* Every entry file of the folder has a key that parses, and no two files
\* have the same key.
GoodFolder ==
    /\ \A i \in DOMAIN cache.files : CacheKey(cache.files[i]).status = "ok"
    /\ \A i, j \in DOMAIN cache.files : cache.files[i] = cache.files[j] => i = j

\* C21: on a folder of sound entry files the lookups are built once, by the
\* first call that needs them, and every call of iter_metadata or of
\* iter_cache with a url ends without raising.
C21_LookupsBuiltOnce ==
    (GoodFolder /\ cache.calls >= 1) => (cache.builds = 1 /\ cache.status = "returned")

\* C28: after a build of the lookups that failed, both lookups are unset.
C28_FailedBuildLeavesLookupsUnset ==
    cache.build_failed => (cache.precached_metadata.is_none /\ cache.url_key_lookup.is_none)

(***************************************************************************)
(* END_OF_KEYS inside nested collections                                   *)
(* (src/ccl_moz_structured_clone_reader.py)                                *)
(***************************************************************************)

\* Most words after the header of a stream of nested collections.
MaxEndOfKeysWords == 4

\* Sets, maps and arrays of declared length 1, a plain value and END_OF_KEYS.
EndOfKeysWords ==
    {PairWord(SET_OBJECT, 0), PairWord(MAP_OBJECT, 0), PairWord(ARRAY_OBJECT, 1),
     PairWord(INT32, 0), PairWord(END_OF_KEYS, 0)}

InitEndOfKeys ==
    /\ \E ws \in SeqsUpTo(EndOfKeysWords, MaxEndOfKeysWords) : \E stream \in Streams(ws) :
            sc = NewReader(stream)
    /\ ck = Idle /\ cache = Idle /\ pf = Idle /\ idb = Idle

SpecEndOfKeys == InitEndOfKeys /\ [][NextStructuredClone]_vars

\* The root is a Set, or a Map that reads its key, whose first member is an
\* Array or a Map with the key INT32 and END_OF_KEYS where the value of that
\* key is expected.
EndOfKeysAtValue ==
    /\ HasWord(4) /\ TagAt(0) = HEADER
    /\ TagAt(1) \in {SET_OBJECT, MAP_OBJECT}
    /\ TagAt(2) \in {ARRAY_OBJECT, MAP_OBJECT}
    /\ TagAt(3) = INT32
    /\ TagAt(4) = END_OF_KEYS

\* C22: an END_OF_KEYS met where a value is expected inside an Array or a
\* Map does not end the enclosing Set or Map: the decode of such a stream
\* fails.
C22_EndOfKeysAtValueFails ==
    (ReaderDone /\ EndOfKeysAtValue) => sc.status = "raised"

\* C23: MozillaIdbKey.from_bytes never lets the decoder's own signals
\* EndOfTokens and TerminatorEncountered reach its caller.
C23_ControlSignalsStayInside ==
    \A n \in DOMAIN idb.results :
        idb.results[n].exc \notin {"EndOfTokens", "TerminatorEncountered"}

(***************************************************************************)
(* The table of flattened objects over the reads of one reader             *)
(***************************************************************************)

\* Most words after the header of a stream whose objects enter the table.
MaxFlattenedWords == 5

\* A set, a BOOLEAN_OBJECT, a typed array of no elements over an empty
\* buffer (its scalar type and start offset are the u64 0), END_OF_KEYS.
FlattenedWords ==
    {PairWord(SET_OBJECT, 0), PairWord(BOOLEAN_OBJECT, 1),
     PairWord(TYPED_ARRAY_OBJECT_V2, 0), U64Word(0),
     PairWord(ARRAY_BUFFER_OBJECT_V2, 0), PairWord(END_OF_KEYS, 0)}

InitFlattened ==
    /\ \E ws \in SeqsUpTo(FlattenedWords, MaxFlattenedWords) :
            \E stream \in Streams(ws) : sc = NewReader(stream)
    /\ ck = Idle /\ cache = Idle /\ pf = Idle /\ idb = Idle

SpecFlattened == InitFlattened /\ [][NextBackReference]_vars

\* One step of the reader leaves every entry the table held where it was.
TableKeepsEntries ==
    LET old == sc.flattened_objects
        new == sc'.flattened_objects
    IN  Len(new) >= Len(old) /\ SubSeq(new, 1, Len(old)) = old

\* The kinds of the objects of the words from j up to endw in the order
\* their pairs stand in the stream.  A typed array stands before its buffer;
\* the words after the typed array's pair and after its buffer's pair are
\* its two u64.
RECURSIVE KindsInStreamOrder(_, _)
KindsInStreamOrder(j, endw) ==
    IF j >= endw THEN <<>>
    ELSE CASE TagAt(j) = SET_OBJECT -> <<"set">> \o KindsInStreamOrder(j + 1, endw)
           [] TagAt(j) = BOOLEAN_OBJECT -> <<"bool">> \o KindsInStreamOrder(j + 1, endw)
           [] TagAt(j) = TYPED_ARRAY_OBJECT_V2 ->
                <<"list", "bytes">> \o KindsInStreamOrder(j + 4, endw)
           [] TagAt(j) = ARRAY_BUFFER_OBJECT_V2 -> <<"bytes">> \o KindsInStreamOrder(j + 1, endw)
           [] OTHER -> KindsInStreamOrder(j + 1, endw)

\* After a read_root that returned, the table holds one entry for each
\* object of the words read, in the order of their pairs: a set before its
\* members, a typed array (no Undefined left in its place) before its buffer.
TableInStreamOrder ==
    ReaderReturned =>
        [i \in 1..Len(sc.flattened_objects) |-> sc.flattened_objects[i].t]
            = KindsInStreamOrder(1, sc.pos \div 8)

SetBeforeMember ==
    /\ ReaderReturned /\ TagAt(1) = SET_OBJECT /\ TagAt(2) = BOOLEAN_OBJECT
    /\ sc.flattened_objects[1].t = "set" /\ sc.flattened_objects[2].t = "bool"

(***************************************************************************)
(* The stream offsets at which pairs are read                              *)
(***************************************************************************)

\* The tags _read_array, _read_object, _read_set and _read_map accept where
\* they read a key or a member.
KeyTags(kind) ==
    CASE kind = "array" -> {INT32, END_OF_KEYS}
      [] kind = "object" -> {STRING_TAG, STRING_OBJECT, END_OF_KEYS}
      [] OTHER -> {}

\* The offsets at which _read(*expected_tags), called at pos0 with the table
\* flat, reads a pair with _read_pair: its own after _align, the string
\* pair of a REGEXP_OBJECT (_read_string), the pairs of the keys, members
\* and values of an array, object, set or map, and the pair of the backing
\* buffer of a typed array.
RECURSIVE pair_offsets(_, _, _, _)
RECURSIVE items_pair_offsets(_, _, _, _, _)

\* The pairs read by the while-loop of _read_array, _read_object, _read_set
\* or _read_map from pos on, the collection being entry `at` of flat.
items_pair_offsets(s, kind, at, pos, flat) ==
    LET key   == sc_read(s, pos, flat, KeyTags(kind))
        value == sc_read(s, key.pos, key.flat, {})
    IN  pair_offsets(s, pos, flat, KeyTags(kind)) \cup
        (IF key.k # "val" THEN {}
         ELSE IF kind = "set"
         THEN IF ~Hashable(key.v) THEN {}
              ELSE LET members == key.flat[at + 1].items
                       added   == IF \E i \in DOMAIN members : PyKey(members[i]) = PyKey(key.v)
                                  THEN members ELSE Append(members, key.v)
                   IN  items_pair_offsets(s, kind, at, key.pos,
                           [key.flat EXCEPT ![at + 1] = [t |-> "set", items |-> added]])
         ELSE pair_offsets(s, key.pos, key.flat, {}) \cup
              (IF value.k # "val" \/ (kind = "map" /\ ~Hashable(key.v)) THEN {}
               ELSE IF kind = "array"
               THEN items_pair_offsets(s, kind, at, value.pos, value.flat)
               ELSE items_pair_offsets(s, kind, at, value.pos,
                        [value.flat EXCEPT ![at + 1] =
                            [t |-> "dict", items |-> DictPut(@.items, key.v, value.v)]])))

pair_offsets(s, pos0, flat, expected_tags) ==
    LET start_offset == align(pos0)
        pair == read_pair(s, start_offset)
        tag  == pair.tag
        pos  == pair.pos
    IN  {start_offset} \cup
        (IF ~pair.ok \/ (expected_tags # {} /\ tag \notin expected_tags) THEN {}
         ELSE CASE tag = REGEXP_OBJECT -> {pos}
                [] tag = ARRAY_OBJECT ->
                     items_pair_offsets(s, "array", Len(flat), pos,
                                        Append(flat, [t |-> "list", items |-> <<>>]))
                [] tag = OBJECT_OBJECT ->
                     items_pair_offsets(s, "object", Len(flat), pos,
                                        Append(flat, [t |-> "dict", items |-> <<>>]))
                [] tag = MAP_OBJECT ->
                     items_pair_offsets(s, "map", Len(flat), pos,
                                        Append(flat, [t |-> "dict", items |-> <<>>]))
                [] tag = SET_OBJECT ->
                     items_pair_offsets(s, "set", Len(flat), pos,
                                        Append(flat, [t |-> "set", items |-> <<>>]))
                [] tag \in {TYPED_ARRAY_OBJECT, TYPED_ARRAY_OBJECT_V2} ->
                     LET head == read_ulong(s, pos)
                         array_type == IF tag = TYPED_ARRAY_OBJECT
                                       THEN Unsigned(pair.data) ELSE head.value
                     IN  IF ~head.ok \/ array_type > 13 THEN {}
                         ELSE pair_offsets(s, head.pos, Append(flat, UndefinedValue),
                                  {BACK_REFERENCE_OBJECT, ARRAY_BUFFER_OBJECT,
                                   ARRAY_BUFFER_OBJECT_V2})
                [] OTHER -> {})

\* Most words after the header of a stream whose reads end off a multiple
\* of 8.
MaxPairOffsetWords == 5

\* An object, a regular expression, a UTF-16 string of one character (2
\* bytes), a typed array of no elements, a buffer of 2 bytes, END_OF_KEYS,
\* and the u64 2: the bytes of a string or of a buffer, the scalar type
\* Int16, a start offset, or (read as a pair) a double.
PairOffsetWords ==
    {PairWord(OBJECT_OBJECT, 0), PairWord(REGEXP_OBJECT, 0), PairWord(STRING_TAG, 1),
     PairWord(TYPED_ARRAY_OBJECT_V2, 0), PairWord(ARRAY_BUFFER_OBJECT_V2, 2),
     PairWord(END_OF_KEYS, 0), U64Word(2)}

InitPairOffsets ==
    /\ \E ws \in SeqsUpTo(PairOffsetWords, MaxPairOffsetWords) :
            \E stream \in Streams(ws) : sc = NewReader(stream)
    /\ ck = Idle /\ cache = Idle /\ pf = Idle /\ idb = Idle

SpecPairOffsets == InitPairOffsets /\ [][NextStructuredClone]_vars

\* The offsets of the pairs a reader has read: the header's in __init__ and,
\* once read_root has run, those of _read from where the header ended.
PairsRead ==
    {0} \cup (IF sc.pc = "done" /\ sc.status # "new" /\ HasWord(0) /\ TagAt(0) = HEADER
              THEN pair_offsets(sc.stream, 8, <<>>, {}) ELSE {})

\* C25: every pair is read at a stream offset that is a multiple of 8.
C25_PairsReadAligned == \A offset \in PairsRead : offset % 8 = 0

\* An object whose key is a string of 2 bytes: the value's pair is read at
\* 32 although the key ended at 26.
C25_Witness ==
    /\ ReaderReturned /\ HasWord(5)
    /\ TagAt(1) = OBJECT_OBJECT /\ TagAt(2) = STRING_TAG
    /\ PairsRead = {0, 8, 16, 32, 40}
    /\ sc.pos = 48

(***************************************************************************)
(* The properties of MozillaProfileFolder                                  *)
(***************************************************************************)

\* Most reads of a property of one facade.
MaxAccesses == 3

\* A facade as __init__ leaves it; `accessor` is the property read last,
\* `returned` what it gave ("object" or "None") and `accesses` the number of
\* properties read.
InitFacade ==
    /\ pf = [places |-> ProfileFolder_init.places,
             localstorage |-> ProfileFolder_init.localstorage,
             ls_db |-> ProfileFolder_init.ls_db,
             sessionstorage |-> ProfileFolder_init.sessionstorage,
             indexeddb |-> ProfileFolder_init.indexeddb,
             idb_db |-> ProfileFolder_init.idb_db,
             pc |-> ProfileFolder_init.pc,
             accessor |-> "", returned |-> "", accesses |-> 0]
    /\ ck = Idle /\ cache = Idle /\ idb = Idle /\ sc = Idle

\* What `return self._x` gives for an attribute that is loaded or None.
Returned(loaded) == IF loaded THEN "object" ELSE "None"

\* The property local_storage.
PropertyLocalStorage ==
    /\ pf.accesses < MaxAccesses
    /\ \E f \in {lazy_load_local_storage(pf)} :
           pf' = [f EXCEPT !.accessor = "local_storage", !.returned = Returned(f.localstorage),
                           !.accesses = @ + 1]
    /\ UNCHANGED <<ck, cache, idb, sc>>

\* The property session_storage: it calls _lazy_load_local_storage and
\* returns _sessionstorage.
PropertySessionStorage ==
    /\ pf.accesses < MaxAccesses
    /\ \E f \in {lazy_load_local_storage(pf)} :
           pf' = [f EXCEPT !.accessor = "session_storage",
                           !.returned = Returned(f.sessionstorage), !.accesses = @ + 1]
    /\ UNCHANGED <<ck, cache, idb, sc>>

\* The property cache: _cache, made by __init__.
PropertyCache ==
    /\ pf.accesses < MaxAccesses
    /\ pf' = [pf EXCEPT !.accessor = "cache", !.returned = Returned(TRUE), !.accesses = @ + 1]
    /\ UNCHANGED <<ck, cache, idb, sc>>

\* The property history.
PropertyHistory ==
    /\ pf.accesses < MaxAccesses
    /\ \E f \in {lazy_load_places(pf)} :
           pf' = [f EXCEPT !.accessor = "history", !.returned = Returned(f.places # "none"),
                           !.accesses = @ + 1]
    /\ UNCHANGED <<ck, cache, idb, sc>>

NextFacade ==
    \/ PropertyLocalStorage
    \/ PropertySessionStorage
    \/ PropertyCache
    \/ PropertyHistory
    \/ NextProfileFolder

SpecFacade == InitFacade /\ [][NextFacade]_vars

\* C26: a property of the facade (local_storage, session_storage, history,
\* cache) gives the loaded object and never None, on a fresh facade and
\* after any calls.
C26_PropertyGivesObject == pf.accessor # "" => pf.returned = "object"

(***************************************************************************)
(* MozillaIndexedDbDatabase.iter_records_for_object_store                  *)
(***************************************************************************)

\* Most rows of object_data for one object store.
MaxRecordRows == 3

\* The columns of a row.  key: a String key or an empty blob.  file_ids:
\* NULL or the ids of the text, as split() gives them.  data: a blob (which
\* snappy and the structured-clone reader decode, or fail on), an integer
\* (the index of an external file the folder holds, not compressed) or
\* NULL.
RowKeys     == {<<TOKEN_String, 97>>, <<>>}
RowFileIds  == {<<"None">>, <<".7">>, <<"7">>}
RowData     ==
    [t : {"bytes"}, ok : BOOLEAN] \cup [t : {"int"}, file_index : {0, 1}] \cup {[t |-> "NULL"]}
RecordRows  == [key : RowKeys, file_ids : RowFileIds, data : RowData]

\* The two copies of the method: the package's (file_ids and external
\* data) and the standalone module's.
RecordReaders == {"package", "standalone"}

\* The generator before its first row: `value` is not bound yet.
Unbound == [bound |-> FALSE, row |-> 0]
ValueOf(n) == [bound |-> TRUE, row |-> n]

InitIdbRecords ==
    /\ \E rows \in SeqsUpTo(RecordRows, MaxRecordRows) : \E reader \in RecordReaders :
           idb = [rows |-> rows, reader |-> reader, next |-> 1, value |-> Unbound,
                  yielded |-> <<>>, exc |-> "", pc |-> "rows"]
    /\ ck = Idle /\ cache = Idle /\ pf = Idle /\ sc = Idle

\* (row["file_ids"] or "").split()
split_file_ids(file_ids) == IF file_ids = <<"None">> THEN <<>> ELSE <<file_ids[1]>>

\* The body of `for row in cur` for the row n, `value` being what earlier
\* rows left in it: the record yielded, a row passed over, or the exception.
\* The value decoded from the data of row n is ValueOf(n).
record_for_row(rows, reader, n, value) ==
    LET row      == rows[n]
        key      == from_bytes(row.key)
        file_ids == IF reader = "package" THEN split_file_ids(row.file_ids) ELSE <<>>
        data     == row.data
        record(v) == [k |-> "yield", value |-> v, exc |-> "",
                      record |-> [row |-> n, key |-> key.value, value |-> v,
                                  file_ids |-> file_ids]]
        raise(exc) == [k |-> "raise", value |-> value, exc |-> exc, record |-> <<>>]
    IN  IF key.status # "returned" THEN raise(key.exc)
        ELSE IF data.t = "bytes"
        THEN IF data.ok THEN record(ValueOf(n)) ELSE raise("ValueError")
        ELSE IF reader = "standalone"
        THEN [k |-> "continue", value |-> value, exc |-> "", record |-> <<>>]
        ELSE IF data.t = "int"
        THEN IF data.file_index >= Len(file_ids) THEN raise("ValueError")
             ELSE IF Head(file_ids[data.file_index + 1]) # "." THEN raise("ValueError")
             ELSE record(ValueOf(n))
        ELSE IF ~value.bound THEN raise("UnboundLocalError")
        ELSE record(value)

\* One turn of the loop of iter_records_for_object_store.
IterRecordsRow ==
    /\ idb.pc = "rows" /\ idb.next <= Len(idb.rows)
    /\ \E r \in {record_for_row(idb.rows, idb.reader, idb.next, idb.value)} :
           idb' = [idb EXCEPT !.next = @ + 1, !.value = r.value, !.exc = r.exc,
                              !.yielded = IF r.k = "yield" THEN Append(@, r.record) ELSE @,
                              !.pc = IF r.k = "raise" THEN "raised" ELSE @]
    /\ UNCHANGED <<ck, cache, pf, sc>>

\* The rows are used up: cur.close() and the generator ends.
IterRecordsEnd ==
    /\ idb.pc = "rows" /\ idb.next > Len(idb.rows)
    /\ idb' = [idb EXCEPT !.pc = "done"]
    /\ UNCHANGED <<ck, cache, pf, sc>>

NextIdbRecords == IterRecordsRow \/ IterRecordsEnd

SpecIdbRecords == InitIdbRecords /\ [][NextIdbRecords]_vars

\* C27: the key, the value and the file_ids of every record yielded come
\* from the same row: no record carries the value of an earlier row.
C27_RecordFromOneRow ==
    \A i \in DOMAIN idb.yielded : idb.yielded[i].value = ValueOf(idb.yielded[i].row)

(***************************************************************************)
(* The number of elements of a typed array                                 *)
(***************************************************************************)

\* Most words after the header of a stream holding a typed array over a
\* buffer that may be empty.
MaxElementCountWords == 5

\* Typed arrays of both formats (count 2 in the pair, scalar type Uint8 in
\* the pair), the u64 0 and 2 (scalar type, count or start offset), a
\* buffer of no bytes and one of 8, and 8 bytes of data.
ElementCountWords ==
    {PairWord(TYPED_ARRAY_OBJECT_V2, 2), PairWord(TYPED_ARRAY_OBJECT, 1),
     U64Word(0), U64Word(2),
     PairWord(ARRAY_BUFFER_OBJECT_V2, 0), PairWord(ARRAY_BUFFER_OBJECT_V2, 8), DataWord}

InitElementCount ==
    /\ \E ws \in SeqsUpTo(ElementCountWords, MaxElementCountWords) :
            \E stream \in Streams(ws) : sc = NewReader(stream)
    /\ ck = Idle /\ cache = Idle /\ pf = Idle /\ idb = Idle

SpecElementCount == InitElementCount /\ [][NextStructuredClone]_vars

\* The root pair is a typed array and read_root returned it.
RootTypedArrayReturned ==
    /\ ReaderReturned /\ HasWord(1) /\ TagAt(0) = HEADER
    /\ TagAt(1) \in {TYPED_ARRAY_OBJECT, TYPED_ARRAY_OBJECT_V2}

\* The number of elements of the typed array read_root returned.
ResultElementCount ==
    LET array == Deref(sc.flattened_objects, sc.result)
    IN  IF array.t = "bytes" THEN Len(array.bytes) ELSE Len(array.items)

\* C29: a typed array that was decoded has exactly element_count elements;
\* with fewer in the buffer, an empty buffer and a count above 0 included,
\* the decode fails.
C29_TypedArrayHasElementCount ==
    RootTypedArrayReturned => ResultElementCount = RootElementCount

\* C30: every CacheKey constructed without error has a URL: a raw key that
\* ends where a tag is expected without a ":" tag ("" or "a,") is rejected.
C30_ConstructedKeyHasUrl == KeyOk => ck.url # None

====
